---- MODULE Spec2Model ----
(***************************************************************************)
(* leetshell: the buffer-based code editor (tui/editor.py) and the screen  *)
(* stack with its cooperative event loop (app.py, tui/core.py and the      *)
(* screens under tui/).                                                    *)
(*                                                                         *)
(* Rows and columns keep Python's 0-based values; a line is a sequence of  *)
(* one-character strings, so line[c] of the source is line[c + 1] here.    *)
(***************************************************************************)
EXTENDS Integers, Sequences, FiniteSets, TLC

\* ------------------------------------------------------------------ bounds
MaxLines == 3
MaxLineLen == 4
MaxKeys == 5
MaxViewKeys == 3
MaxWidth == 6
MaxHeight == 2
MaxScreens == 3
MaxTasks == 2
\* CodeEditor._max_undo is 200 in the source; the model keeps the trimming
\* rule and scales the depth down so that a full stack is reachable.
MaxUndo == 3

\* screens and tasks in the runs that check progress of the event loop
MaxFairScreens == 3

MaxFairTasks == 1

\* length of the texts whose recomputation is checked for every token stream
MaxHlLen == 4

\* length of the texts on which the word movements are checked
MaxWordLen == 5

\* screens and tasks in the runs in which login attempts are answered
MaxLoginScreens == 3

MaxLoginTasks == 1

\* the detail screen: languages with a snippet, rows of the description
\* area (max(1, term.height - 4)), lines of the description in the full
\* and in the split view, lines of the notice of a premium problem, keys
NumLangs == 2

ContentHeight == 2

DescLines == 5

SplitLines == 4

PremiumLines == 1

MaxDetailKeys == 4

\* last row of the tallest buffer on which the vertical movements are checked
MaxPageRow == 45

MaxLoginFairScreens == 2
MaxListTasks == 3

\* length of the texts, and number of keys after set_text, in the runs that
\* start from every short text
MaxBufLen == 2

MaxBufKeys == 4

\* ------------------------------------------------------- program constants
PageRows == 20
TabWidth == 4
MinGutter == 4

Min(a, b) == IF a < b THEN a ELSE b
Max(a, b) == IF a > b THEN a ELSE b

\* ---------------------------------------------------------- python helpers
\* s[:n] and s[n:] for n >= 0 (slices clamp, they never raise)
Take(s, n) == SubSeq(s, 1, Min(n, Len(s)))
Drop(s, n) == SubSeq(s, Min(n, Len(s)) + 1, Len(s))

\* list.pop(i) / del list[i]
RemoveAt(s, i) == Take(s, i) \o Drop(s, i + 1)

\* ch.isalnum() or ch == "_"
IsWord(ch) == ch \in {"a", "b", "_"}

\* str(n): only its length is used
RECURSIVE Digits(_)
Digits(n) == IF n < 10 THEN 1 ELSE 1 + Digits(n \div 10)

\* text.split("\n")
RECURSIVE Split(_)
Split(t) ==
  IF \A i \in 1..Len(t) : t[i] # "\n" THEN <<t>>
  ELSE LET i == CHOOSE j \in 1..Len(t) :
                  t[j] = "\n" /\ \A k \in 1..(j - 1) : t[k] # "\n"
       IN <<SubSeq(t, 1, i - 1)>> \o Split(SubSeq(t, i + 1, Len(t)))

\* "\n".join(ls)
RECURSIVE Join(_)
Join(ls) ==
  IF Len(ls) = 0 THEN <<>>
  ELSE IF Len(ls) = 1 THEN ls[1]
  ELSE ls[1] \o <<"\n">> \o Join(Tail(ls))

\* ------------------------------------------------------------------ state
VARIABLES
  lines,            \* CodeEditor._lines
  cursor_row,       \* CodeEditor._cursor_row
  cursor_col,       \* CodeEditor._cursor_col
  scroll_row,       \* CodeEditor._scroll_row
  scroll_col,       \* CodeEditor._scroll_col
  sel_anchor,       \* CodeEditor._sel_anchor (None or <<row, col>>)
  undo_stack,       \* CodeEditor._undo_stack
  redo_stack,       \* CodeEditor._redo_stack
  highlight_dirty,  \* CodeEditor._highlight_dirty
  highlighted,      \* CodeEditor._highlighted (per line: <<color, text>> pairs)
  tokens,           \* history: the lexer output of the last recomputation
  dirty,            \* CodeEditor.dirty
  nkeys,            \* number of keys handled so far (bounded)
  probe,            \* history: the last edit key, then undo, then redo
  chain             \* history: a run of edit keys followed by undos

edVars == <<lines, cursor_row, cursor_col, scroll_row, scroll_col,
            sel_anchor, undo_stack, redo_stack, highlight_dirty, highlighted,
            tokens, dirty, nkeys, probe, chain>>

\* the application (defined in the second part of the module)
VARIABLES
  stack,         \* LeetCodeApp._screen_stack (screen ids, last = active)
  running,       \* LeetCodeApp._running
  notification,  \* LeetCodeApp._notification (which message, "" for none)
  screens,       \* every Screen object constructed so far, by id
  tasks,         \* asyncio tasks created and not yet finished
  pc,            \* where LeetCodeApp.run() stands
  screen,        \* run()'s local variable screen (0 before the first tick)
  inkey,         \* run()'s local variable key
  closed,        \* number of calls of client.close() made by run()
  navLog,        \* history: navigation calls of the last step that navigated
  tick,          \* history: what has happened in the current tick
  prevFail       \* history: the render of the previous tick raised

appVars == <<stack, running, notification, screens, tasks, pc, screen, inkey,
             closed, navLog, tick, prevFail>>

\* one problem-detail screen with the editor above as its _editor
VARIABLES
  detail         \* the fields of a ProblemDetailScreen and its solution files

vars == <<edVars, appVars, detail>>

None == <<>>

\* the editor's fields as one value, with the flag of a propagating IndexError
Ed == [lines |-> lines, row |-> cursor_row, col |-> cursor_col,
       anchor |-> sel_anchor, undo |-> undo_stack, redo |-> redo_stack,
       hdirty |-> highlight_dirty, dirty |-> dirty, err |-> FALSE]

Raise(e) == [e EXCEPT !.err = TRUE]

\* self._lines[row] is defined
RowOK(e, r) == r >= 0 /\ r < Len(e.lines)

Line(e, r) == e.lines[r + 1]

Snapshot(e) == [lines |-> e.lines, row |-> e.row, col |-> e.col]

\* ------------------------------------------------------------- selection
Less(a, b) == a[1] < b[1] \/ (a[1] = b[1] /\ a[2] < b[2])

\* a range that always runs from the anchor to the cursor
SelRangeUnordered(e) ==
  IF e.anchor = None THEN None
  ELSE LET cursor == <<e.row, e.col>> IN
       IF e.anchor = cursor THEN None
       ELSE <<e.anchor, cursor>>

\* a range that always starts at the cursor
SelRangeFromCursor(e) ==
  IF e.anchor = None THEN None
  ELSE LET cursor == <<e.row, e.col>> IN
       IF e.anchor = cursor THEN None
       ELSE <<cursor, e.anchor>>

SelRange(e) ==
  IF e.anchor = None THEN None
  ELSE LET cursor == <<e.row, e.col>> IN
       IF e.anchor = cursor THEN None
       ELSE IF Less(e.anchor, cursor) THEN <<e.anchor, cursor>>
       ELSE <<cursor, e.anchor>>

\* _in_selection that counts the end position as selected
InSelectionToEnd(e, row, col) ==
  LET sel == SelRange(e) IN
  IF sel = None THEN FALSE
  ELSE LET sr == sel[1][1]  sc == sel[1][2]
           er == sel[2][1]  ec == sel[2][2]
       IN IF row < sr \/ row > er THEN FALSE
          ELSE IF row = sr /\ row = er THEN sc <= col /\ col <= ec
          ELSE IF row = sr THEN col >= sc
          ELSE IF row = er THEN col <= ec
          ELSE TRUE

InSelection(e, row, col) ==
  LET sel == SelRange(e) IN
  IF sel = None THEN FALSE
  ELSE LET sr == sel[1][1]  sc == sel[1][2]
           er == sel[2][1]  ec == sel[2][2]
       IN IF row < sr \/ row > er THEN FALSE
          ELSE IF row = sr /\ row = er THEN sc <= col /\ col < ec
          ELSE IF row = sr THEN col >= sc
          ELSE IF row = er THEN col < ec
          ELSE TRUE

\* ------------------------------------------------------------- undo / redo
\* _save_undo that leaves the redo stack as it is
SaveUndoKeepsRedo(e) ==
  LET pushed == Append(e.undo, Snapshot(e)) IN
  [e EXCEPT !.undo = IF Len(pushed) > MaxUndo THEN Tail(pushed) ELSE pushed]

\* _save_undo that pushes no snapshot equal to the newest one
SaveUndoOnce(e) ==
  LET pushed == IF e.undo # <<>> /\ e.undo[Len(e.undo)] = Snapshot(e)
                THEN e.undo ELSE Append(e.undo, Snapshot(e)) IN
  [e EXCEPT !.undo = IF Len(pushed) > MaxUndo THEN Tail(pushed) ELSE pushed,
            !.redo = <<>>]

\* _save_undo that never drops an entry
SaveUndoNoTrim(e) ==
  [e EXCEPT !.undo = Append(e.undo, Snapshot(e)), !.redo = <<>>]

SaveUndo(e) ==
  LET pushed == Append(e.undo, Snapshot(e)) IN
  [e EXCEPT !.undo = IF Len(pushed) > MaxUndo THEN Tail(pushed) ELSE pushed,
            !.redo = <<>>]

\* _undo that restores the lines and leaves the cursor where it is
UndoKeepsCursor(e) ==
  IF Len(e.undo) = 0 THEN e
  ELSE LET top == e.undo[Len(e.undo)] IN
       [e EXCEPT !.redo = Append(e.redo, Snapshot(e)),
                 !.undo = SubSeq(e.undo, 1, Len(e.undo) - 1),
                 !.lines = top.lines,
                 !.anchor = None, !.hdirty = TRUE, !.dirty = TRUE]

Undo(e) ==
  IF Len(e.undo) = 0 THEN e
  ELSE LET top == e.undo[Len(e.undo)] IN
       [e EXCEPT !.redo = Append(e.redo, Snapshot(e)),
                 !.undo = SubSeq(e.undo, 1, Len(e.undo) - 1),
                 !.lines = top.lines, !.row = top.row, !.col = top.col,
                 !.anchor = None, !.hdirty = TRUE, !.dirty = TRUE]

Redo(e) ==
  IF Len(e.redo) = 0 THEN e
  ELSE LET top == e.redo[Len(e.redo)] IN
       [e EXCEPT !.undo = Append(e.undo, Snapshot(e)),
                 !.redo = SubSeq(e.redo, 1, Len(e.redo) - 1),
                 !.lines = top.lines, !.row = top.row, !.col = top.col,
                 !.anchor = None, !.hdirty = TRUE, !.dirty = TRUE]

\* a _delete_selection that keeps no line for a range that leaves no text
\* on the joined line
DeleteSelectionDropsEmptyLine(e) ==
  LET sel == SelRange(e) IN
  IF sel = None THEN [ed |-> e, had |-> FALSE]
  ELSE
    LET e1 == SaveUndo(e)
        sr == sel[1][1]  sc == sel[1][2]
        er == sel[2][1]  ec == sel[2][2]
    IN
    IF ~RowOK(e1, sr) \/ ~RowOK(e1, er) THEN [ed |-> Raise(e1), had |-> FALSE]
    ELSE
      LET joined == Take(Line(e1, sr), sc) \o Drop(Line(e1, er), ec)
          kept == IF joined = <<>> THEN <<>> ELSE <<joined>>
          newLines == Take(e1.lines, sr) \o kept \o Drop(e1.lines, er + 1)
      IN [ed |-> [e1 EXCEPT !.lines = newLines, !.row = sr, !.col = sc,
                            !.anchor = None, !.hdirty = TRUE, !.dirty = TRUE],
          had |-> TRUE]

\* _delete_selection: the editor afterwards and the returned flag
DeleteSelection(e) ==
  LET sel == SelRange(e) IN
  IF sel = None THEN [ed |-> e, had |-> FALSE]
  ELSE
    LET e1 == SaveUndo(e)
        sr == sel[1][1]  sc == sel[1][2]
        er == sel[2][1]  ec == sel[2][2]
    IN
    IF ~RowOK(e1, sr) \/ ~RowOK(e1, er) THEN [ed |-> Raise(e1), had |-> FALSE]
    ELSE
      LET joined == IF sr = er
                    THEN Take(Line(e1, sr), sc) \o Drop(Line(e1, sr), ec)
                    ELSE Take(Line(e1, sr), sc) \o Drop(Line(e1, er), ec)
          newLines == Take(e1.lines, sr) \o <<joined>> \o Drop(e1.lines, er + 1)
      IN [ed |-> [e1 EXCEPT !.lines = newLines, !.row = sr, !.col = sc,
                            !.anchor = None, !.hdirty = TRUE, !.dirty = TRUE],
          had |-> TRUE]

\* ------------------------------------------------------ editing operations
InsertText(e, text) ==
  IF ~RowOK(e, e.row) THEN Raise(e)
  ELSE LET line == Line(e, e.row) IN
       [e EXCEPT !.lines[e.row + 1] = Take(line, e.col) \o text \o Drop(line, e.col),
                 !.col = e.col + Len(text),
                 !.hdirty = TRUE, !.dirty = TRUE]

InsertChar(e, ch) == InsertText(e, <<ch>>)

Backspace(e) ==
  IF e.col > 0 THEN
    IF ~RowOK(e, e.row) THEN Raise(e)
    ELSE LET line == Line(e, e.row) IN
         [e EXCEPT !.lines[e.row + 1] = Take(line, e.col - 1) \o Drop(line, e.col),
                   !.col = e.col - 1,
                   !.hdirty = TRUE, !.dirty = TRUE]
  ELSE IF e.row > 0 THEN
    IF ~RowOK(e, e.row - 1) \/ ~RowOK(e, e.row) THEN Raise(e)
    ELSE LET prev == Line(e, e.row - 1)
             merged == [e.lines EXCEPT ![e.row] = prev \o Line(e, e.row)]
         IN [e EXCEPT !.lines = RemoveAt(merged, e.row),
                      !.row = e.row - 1,
                      !.col = Len(prev),
                      !.hdirty = TRUE, !.dirty = TRUE]
  ELSE e

Delete(e) ==
  IF ~RowOK(e, e.row) THEN Raise(e)
  ELSE LET line == Line(e, e.row) IN
    IF e.col < Len(line) THEN
      [e EXCEPT !.lines[e.row + 1] = Take(line, e.col) \o Drop(line, e.col + 1),
                !.hdirty = TRUE, !.dirty = TRUE]
    ELSE IF e.row < Len(e.lines) - 1 THEN
      LET merged == [e.lines EXCEPT ![e.row + 1] = line \o Line(e, e.row + 1)]
      IN [e EXCEPT !.lines = RemoveAt(merged, e.row + 1),
                   !.hdirty = TRUE, !.dirty = TRUE]
    ELSE e

\* the leading run of spaces and tabs
RECURSIVE Indent(_)
Indent(line) ==
  IF Len(line) > 0 /\ Head(line) \in {" ", "\t"}
  THEN <<Head(line)>> \o Indent(Tail(line))
  ELSE <<>>

\* an Enter that splits the line without marking the highlight cache stale
EnterKeepsCache(e) ==
  IF ~RowOK(e, e.row) THEN Raise(e)
  ELSE LET line == Line(e, e.row)
           indent == Indent(line)
           before == Take(line, e.col)
           after == Drop(line, e.col)
       IN [e EXCEPT !.lines = Take(e.lines, e.row) \o <<before, indent \o after>>
                                \o Drop(e.lines, e.row + 1),
                    !.row = e.row + 1,
                    !.col = Len(indent),
                    !.dirty = TRUE]

\* an Enter that copies only the indentation left of the cursor
EnterIndentsToCursor(e) ==
  IF ~RowOK(e, e.row) THEN Raise(e)
  ELSE LET line == Line(e, e.row)
           before == Take(line, e.col)
           after == Drop(line, e.col)
       IN [e EXCEPT !.lines = Take(e.lines, e.row)
                                \o <<before, Indent(before) \o after>>
                                \o Drop(e.lines, e.row + 1),
                    !.row = e.row + 1,
                    !.col = Len(Indent(before)),
                    !.hdirty = TRUE, !.dirty = TRUE]

Enter(e) ==
  IF ~RowOK(e, e.row) THEN Raise(e)
  ELSE LET line == Line(e, e.row)
           indent == Indent(line)
           before == Take(line, e.col)
           after == Drop(line, e.col)
       IN [e EXCEPT !.lines = Take(e.lines, e.row) \o <<before, indent \o after>>
                                \o Drop(e.lines, e.row + 1),
                    !.row = e.row + 1,
                    !.col = Len(indent),
                    !.hdirty = TRUE, !.dirty = TRUE]

\* -------------------------------------------------------- cursor movement
\* self._cursor_col = min(self._cursor_col, len(self._lines[self._cursor_row]))
\* for a row that was just assigned
ClampCol(e) ==
  IF ~RowOK(e, e.row) THEN Raise(e)
  ELSE [e EXCEPT !.col = Min(e.col, Len(Line(e, e.row)))]

\* self._cursor_col = len(self._lines[self._cursor_row]) for a row just assigned
EndCol(e) ==
  IF ~RowOK(e, e.row) THEN Raise(e)
  ELSE [e EXCEPT !.col = Len(Line(e, e.row))]

MarkDirty(e) == IF e.err THEN e ELSE [e EXCEPT !.dirty = TRUE]

MoveUp(e) ==
  IF e.row > 0 THEN MarkDirty(ClampCol([e EXCEPT !.row = e.row - 1])) ELSE e

\* _move_down that keeps the column whatever the new line's length
MoveDownKeepsCol(e) ==
  IF e.row < Len(e.lines) - 1
  THEN [e EXCEPT !.row = e.row + 1, !.dirty = TRUE] ELSE e

MoveDown(e) ==
  IF e.row < Len(e.lines) - 1
  THEN MarkDirty(ClampCol([e EXCEPT !.row = e.row + 1])) ELSE e

\* _move_left that stops at column 0
MoveLeftNoWrap(e) ==
  IF e.col > 0 THEN [e EXCEPT !.col = e.col - 1, !.dirty = TRUE] ELSE e

MoveLeft(e) ==
  IF e.col > 0 THEN [e EXCEPT !.col = e.col - 1, !.dirty = TRUE]
  ELSE IF e.row > 0 THEN MarkDirty(EndCol([e EXCEPT !.row = e.row - 1]))
  ELSE e

MoveRight(e) ==
  IF ~RowOK(e, e.row) THEN Raise(e)
  ELSE IF e.col < Len(Line(e, e.row)) THEN [e EXCEPT !.col = e.col + 1, !.dirty = TRUE]
  ELSE IF e.row < Len(e.lines) - 1
       THEN [e EXCEPT !.row = e.row + 1, !.col = 0, !.dirty = TRUE]
  ELSE e

\* while col < len(line) and (is-word(line[col]) == word): col += 1
RECURSIVE SkipRight(_, _, _)
SkipRight(line, col, word) ==
  IF col < Len(line) /\ (IsWord(line[col + 1]) = word)
  THEN SkipRight(line, col + 1, word) ELSE col

\* while col > 0 and not is-word(line[col]): col -= 1
RECURSIVE SkipLeftOther(_, _)
SkipLeftOther(line, col) ==
  IF col > 0 /\ ~IsWord(line[col + 1]) THEN SkipLeftOther(line, col - 1) ELSE col

\* while col > 0 and is-word(line[col - 1]): col -= 1
RECURSIVE SkipLeftWord(_, _)
SkipLeftWord(line, col) ==
  IF col > 0 /\ IsWord(line[col]) THEN SkipLeftWord(line, col - 1) ELSE col

MoveWordLeft(e) ==
  IF e.col > 0 THEN
    IF ~RowOK(e, e.row) THEN Raise(e)
    ELSE LET line == Line(e, e.row)
             col == e.col - 1
         IN \* line[col] is read only when col > 0; it raises past the end
            IF col > 0 /\ col >= Len(line) THEN Raise(e)
            ELSE [e EXCEPT !.col = SkipLeftWord(line, SkipLeftOther(line, col)),
                           !.dirty = TRUE]
  ELSE IF e.row > 0 THEN MarkDirty(EndCol([e EXCEPT !.row = e.row - 1]))
  ELSE [e EXCEPT !.dirty = TRUE]

\* a move_word_right that, after crossing to the next line, goes on with the
\* word skip there
MoveWordRightSkips(e) ==
  IF ~RowOK(e, e.row) THEN Raise(e)
  ELSE LET line == Line(e, e.row) IN
    IF e.col < Len(line)
    THEN [e EXCEPT !.col = SkipRight(line, SkipRight(line, e.col, TRUE), FALSE),
                   !.dirty = TRUE]
    ELSE IF e.row < Len(e.lines) - 1
         THEN LET next == Line(e, e.row + 1) IN
              [e EXCEPT !.row = e.row + 1,
                        !.col = SkipRight(next, SkipRight(next, 0, TRUE), FALSE),
                        !.dirty = TRUE]
    ELSE [e EXCEPT !.dirty = TRUE]

MoveWordRight(e) ==
  IF ~RowOK(e, e.row) THEN Raise(e)
  ELSE LET line == Line(e, e.row) IN
    IF e.col < Len(line)
    THEN [e EXCEPT !.col = SkipRight(line, SkipRight(line, e.col, TRUE), FALSE),
                   !.dirty = TRUE]
    ELSE IF e.row < Len(e.lines) - 1
         THEN [e EXCEPT !.row = e.row + 1, !.col = 0, !.dirty = TRUE]
    ELSE [e EXCEPT !.dirty = TRUE]

PageUp(e) == MarkDirty(ClampCol([e EXCEPT !.row = Max(0, e.row - PageRows)]))

PageDown(e) ==
  MarkDirty(ClampCol([e EXCEPT !.row = Min(Len(e.lines) - 1, e.row + PageRows)]))

\* ------------------------------------------------------------ key handling
\* A keystroke: name is the blessed key name ("" when the key has none) and
\* ch its string value.
Key(name, ch) == [name |-> name, ch |-> ch]

ShiftMoveNames == {"kUP2", "kDN2", "kLFT2", "kRIT2", "kLFT6", "kRIT6",
                   "kHOM2", "kEND2"}
PlainMoveNames == {"kLFT5", "kRIT5", "KEY_UP", "KEY_DOWN", "KEY_LEFT",
                   "KEY_RIGHT", "KEY_HOME", "KEY_END", "KEY_PGUP", "KEY_PGDOWN"}
EditNames == {"KEY_BACKSPACE", "KEY_DELETE", "KEY_ENTER", "KEY_TAB"}
UndoChars == {"^U"}
RedoChars == {"^R"}
TypedChars == {"a"}

SelectKeys == {Key(n, "") : n \in ShiftMoveNames}
MoveKeys == {Key(n, "") : n \in PlainMoveNames}
UndoKeys == {Key("", c) : c \in UndoChars}
RedoKeys == {Key("", c) : c \in RedoChars}
EditKeys == {Key(n, "") : n \in EditNames \ {"KEY_TAB"}}
              \cup {Key("KEY_TAB", "\t")}
              \cup {Key("", c) : c \in TypedChars}

Spaces(n) == [i \in 1..n |-> " "]

\* the part of handle_key after _save_undo() for Enter, Tab and a character
ReplaceSelection(e) == DeleteSelection(SaveUndo(e)).ed

HandleKey(e, key) ==
  LET name == key.name IN
  IF name \in ShiftMoveNames THEN
    LET e1 == IF e.anchor = None THEN [e EXCEPT !.anchor = <<e.row, e.col>>] ELSE e
    IN CASE name \in {"kUP2", "kUP6"} -> MoveUp(e1)
         [] name \in {"kDN2", "kDN6"} -> MoveDown(e1)
         [] name = "kLFT2" -> MoveLeft(e1)
         [] name = "kRIT2" -> MoveRight(e1)
         [] name = "kLFT6" -> MoveWordLeft(e1)
         [] name = "kRIT6" -> MoveWordRight(e1)
         [] name = "kHOM2" -> [e1 EXCEPT !.col = 0, !.dirty = TRUE]
         [] name = "kEND2" -> MarkDirty(EndCol(e1))
  ELSE IF name = "kLFT5" THEN MoveWordLeft([e EXCEPT !.anchor = None])
  ELSE IF name = "kRIT5" THEN MoveWordRight([e EXCEPT !.anchor = None])
  ELSE IF name = "KEY_UP" THEN MoveUp([e EXCEPT !.anchor = None])
  ELSE IF name = "KEY_DOWN" THEN MoveDown([e EXCEPT !.anchor = None])
  ELSE IF name = "KEY_LEFT" THEN
    IF e.anchor # None THEN
      LET sel == SelRange(e) IN
      [e EXCEPT !.row = IF sel # None THEN sel[1][1] ELSE e.row,
                !.col = IF sel # None THEN sel[1][2] ELSE e.col,
                !.anchor = None, !.dirty = TRUE]
    ELSE MoveLeft(e)
  ELSE IF name = "KEY_RIGHT" THEN
    IF e.anchor # None THEN
      LET sel == SelRange(e) IN
      [e EXCEPT !.row = IF sel # None THEN sel[2][1] ELSE e.row,
                !.col = IF sel # None THEN sel[2][2] ELSE e.col,
                !.anchor = None, !.dirty = TRUE]
    ELSE MoveRight(e)
  ELSE IF name = "KEY_HOME" THEN [e EXCEPT !.anchor = None, !.col = 0, !.dirty = TRUE]
  ELSE IF name = "KEY_END" THEN MarkDirty(EndCol([e EXCEPT !.anchor = None]))
  ELSE IF name = "KEY_PGUP" THEN PageUp([e EXCEPT !.anchor = None])
  ELSE IF name = "KEY_PGDOWN" THEN PageDown([e EXCEPT !.anchor = None])
  ELSE IF key.ch \in UndoChars THEN Undo(e)
  ELSE IF key.ch \in RedoChars THEN Redo(e)
  ELSE IF name = "KEY_BACKSPACE" THEN
    LET d == DeleteSelection(e) IN
    IF d.ed.err \/ d.had THEN d.ed ELSE Backspace(SaveUndo(e))
  ELSE IF name = "KEY_DELETE" THEN
    LET d == DeleteSelection(e) IN
    IF d.ed.err \/ d.had THEN d.ed ELSE Delete(SaveUndo(e))
  ELSE IF name = "KEY_ENTER" THEN
    LET e1 == ReplaceSelection(e) IN IF e1.err THEN e1 ELSE Enter(e1)
  ELSE IF name = "KEY_TAB" \/ key.ch = "\t" THEN
    LET e1 == ReplaceSelection(e) IN
    IF e1.err THEN e1 ELSE InsertText(e1, Spaces(TabWidth))
  ELSE IF key.ch # "" /\ name = "" THEN
    LET e1 == ReplaceSelection(e) IN IF e1.err THEN e1 ELSE InsertChar(e1, key.ch)
  ELSE e

\* ---------------------------------------------------------------- render
\* the viewport part of render(x, y, width, height): the scroll offsets
GutterWidth(e) == Max(MinGutter, Digits(Len(e.lines)) + 2)

CodeWidth(e, width) == width - GutterWidth(e)

RenderScrollRow(e, srow, height) ==
  IF e.row < srow THEN e.row
  ELSE IF e.row >= srow + height THEN e.row - height + 1
  ELSE srow

\* the horizontal scroll with the cursor put one column past the window
RenderScrollColPastEnd(e, scol, width) ==
  IF e.col < scol THEN e.col
  ELSE IF e.col >= scol + CodeWidth(e, width) THEN e.col - CodeWidth(e, width)
  ELSE scol

RenderScrollCol(e, scol, width) ==
  IF e.col < scol THEN e.col
  ELSE IF e.col >= scol + CodeWidth(e, width) THEN e.col - CodeWidth(e, width) + 1
  ELSE scol

\* ------------------------------------------------------------ highlighting
\* the state of the loop of _rehighlight: the finished lines and current_line
NoLines == [out |-> <<>>, cur |-> <<>>]

\* for i, part in enumerate(parts): the parts of one token from the i-th on
RECURSIVE FeedParts(_, _, _, _)
FeedParts(st, color, parts, i) ==
  IF i > Len(parts) THEN st
  ELSE LET s1 == IF i > 1 THEN [out |-> Append(st.out, st.cur), cur |-> <<>>]
                 ELSE st
           s2 == IF parts[i] # <<>>
                 THEN [s1 EXCEPT !.cur = Append(s1.cur, <<color, parts[i]>>)]
                 ELSE s1
       IN FeedParts(s2, color, parts, i + 1)

\* for token_type, value in tokens
RECURSIVE FeedTokens(_, _)
FeedTokens(st, toks) ==
  IF toks = <<>> THEN st
  ELSE FeedTokens(FeedParts(st, toks[1].color, Split(toks[1].text), 1),
                  Tail(toks))

\* while len(self._highlighted) < len(self._lines): append([])
Pad(hl, n) == hl \o [i \in 1..(n - Len(hl)) |-> <<>>]

\* a recomputation that forgets the line in progress at the end of the loop
RehighlightedNoFlush(ls, toks) == Pad(FeedTokens(NoLines, toks).out, Len(ls))

\* the value of _highlighted after a recomputation over the lexer output toks
Rehighlighted(ls, toks) ==
  LET st == FeedTokens(NoLines, toks)
  IN Pad(Append(st.out, st.cur), Len(ls))

\* the pieces of t cut after each position of cuts, from position from on
RECURSIVE Pieces(_, _, _)
Pieces(t, cuts, from) ==
  IF from > Len(t) THEN <<>>
  ELSE LET later == {c \in cuts : c >= from /\ c < Len(t)}
           to == IF later = {} THEN Len(t)
                 ELSE CHOOSE c \in later : \A d \in later : c <= d
       IN <<SubSeq(t, from, to)>> \o Pieces(t, cuts, to + 1)

Colors == {"", "cyan"}

\* every token stream whose token texts concatenate to t, a trailing empty
\* token included
Tokenizations(t) ==
  LET streams ==
        UNION { LET ps == Pieces(t, cuts, 1) IN
                { [i \in 1..Len(ps) |-> [color |-> col[i], text |-> ps[i]]] :
                    col \in [1..Len(ps) -> Colors] } :
                cuts \in SUBSET (1..(Len(t) - 1)) }
  IN streams \cup { Append(x, [color |-> "", text |-> <<>>]) : x \in streams }

\* the lexer output used when the whole editor runs: the text as a single
\* token, which is what TextLexer, the fallback of _make_lexer, yields (the
\* outputs of the other lexers are covered by Tokenizations)
Lexings(t) ==
  { [i \in 1..Len(ps) |-> [color |-> "", text |-> ps[i]]] :
      ps \in {Pieces(t, {}, 1)} }

\* texts handed to set_text before a recomputation is examined on its own
HlChars == {"a", "b", "\n"}

HlTexts == UNION { [1..n -> HlChars] : n \in 0..MaxHlLen }

\* ----------------------------------------------------------- editor steps
\* texts handed to set_text
Texts == { <<" ", "a", "\n", "a">> }

Bounded(e) ==
  /\ Len(e.lines) <= MaxLines
  /\ \A i \in 1..Len(e.lines) : Len(e.lines[i]) <= MaxLineLen

Idle == [phase |-> "idle", pre |-> None, post |-> None]
NoChain == [base |-> None, n |-> 0, m |-> 0]

ProbeAfter(kind, before, after) ==
  CASE kind = "edit" -> [phase |-> "edited", pre |-> Snapshot(before),
                         post |-> Snapshot(after)]
    [] kind = "undo" -> IF probe.phase = "edited"
                        THEN [probe EXCEPT !.phase = "undone"] ELSE Idle
    [] kind = "redo" -> IF probe.phase = "undone"
                        THEN [probe EXCEPT !.phase = "redone"] ELSE Idle
    [] OTHER -> Idle

ChainAfter(kind, before) ==
  CASE kind = "edit" -> IF chain.base # None /\ chain.m = 0 /\ chain.n < MaxUndo
                        THEN [chain EXCEPT !.n = chain.n + 1]
                        ELSE [base |-> Snapshot(before), n |-> 1, m |-> 0]
    [] kind = "undo" -> IF chain.base # None /\ chain.m < chain.n
                        THEN [chain EXCEPT !.m = chain.m + 1] ELSE NoChain
    [] OTHER -> NoChain

EdInit ==
  /\ lines = << <<>> >>
  /\ cursor_row = 0
  /\ cursor_col = 0
  /\ scroll_row = 0
  /\ scroll_col = 0
  /\ sel_anchor = None
  /\ undo_stack = <<>>
  /\ redo_stack = <<>>
  /\ highlight_dirty = TRUE
  /\ highlighted = <<>>
  /\ tokens = <<>>
  /\ dirty = TRUE
  /\ nkeys = 0
  /\ probe = Idle
  /\ chain = NoChain

\* set_text that keeps the undo stack of the text it replaces
SetTextKeepsUndo(t) ==
  /\ lines' = (IF t # <<>> THEN Split(t) ELSE << <<>> >>)
  /\ cursor_row' = 0
  /\ cursor_col' = 0
  /\ scroll_row' = 0
  /\ scroll_col' = 0
  /\ sel_anchor' = None
  /\ undo_stack' = undo_stack
  /\ redo_stack' = <<>>
  /\ highlight_dirty' = TRUE
  /\ dirty' = TRUE
  /\ probe' = Idle
  /\ chain' = NoChain
  /\ UNCHANGED <<nkeys, highlighted, tokens>>
  /\ UNCHANGED <<appVars, detail>>

SetText(t) ==
  /\ lines' = (IF t # <<>> THEN Split(t) ELSE << <<>> >>)
  /\ cursor_row' = 0
  /\ cursor_col' = 0
  /\ scroll_row' = 0
  /\ scroll_col' = 0
  /\ sel_anchor' = None
  /\ undo_stack' = <<>>
  /\ redo_stack' = <<>>
  /\ highlight_dirty' = TRUE
  /\ dirty' = TRUE
  /\ probe' = Idle
  /\ chain' = NoChain
  /\ UNCHANGED <<nkeys, highlighted, tokens>>
  /\ UNCHANGED <<appVars, detail>>

\* handle_key(key); kind is the class of the key. An edit that would grow
\* the buffer past MaxLines x MaxLineLen is not taken.
Press(key, kind) ==
  \E r \in {HandleKey(Ed, key)} :
  /\ nkeys < MaxKeys
  /\ kind = "edit" => Bounded(r)
  /\ nkeys' = nkeys + 1
  /\ lines' = r.lines
  /\ cursor_row' = r.row
  /\ cursor_col' = r.col
  /\ sel_anchor' = r.anchor
  /\ undo_stack' = r.undo
  /\ redo_stack' = r.redo
  /\ highlight_dirty' = r.hdirty
  /\ dirty' = r.dirty
  /\ probe' = ProbeAfter(kind, Ed, r)
  /\ chain' = ChainAfter(kind, Ed)
  /\ UNCHANGED <<scroll_row, scroll_col, highlighted, tokens>>
  /\ UNCHANGED <<appVars, detail>>

MoveKey(key) ==
  /\ key \in MoveKeys
  /\ Press(key, "move")

SelectKey(key) ==
  /\ key \in SelectKeys
  /\ Press(key, "select")

UndoKey(key) ==
  /\ key \in UndoKeys
  /\ Press(key, "undo")

RedoKey(key) ==
  /\ key \in RedoKeys
  /\ Press(key, "redo")

EditKey(key) ==
  /\ key \in EditKeys
  /\ Press(key, "edit")

\* _rehighlight() alone, with toks the output of lex(full_text, lexer)
Rehighlight(toks) ==
  /\ highlighted' = IF highlight_dirty THEN Rehighlighted(lines, toks)
                    ELSE highlighted
  /\ tokens' = IF highlight_dirty THEN toks ELSE tokens
  /\ highlight_dirty' = FALSE
  /\ UNCHANGED <<appVars, detail>>
  /\ UNCHANGED <<lines, cursor_row, cursor_col, scroll_row, scroll_col,
                 sel_anchor, undo_stack, redo_stack, dirty, nkeys, probe,
                 chain>>

\* render(x, y, width, height): _rehighlight(), the scroll adjustment, the
\* drawing (which reads _highlighted), dirty = False
Render(width, height) ==
  /\ dirty' = FALSE
  /\ highlight_dirty' = FALSE
  /\ scroll_row' = RenderScrollRow(Ed, scroll_row, height)
  /\ scroll_col' = RenderScrollCol(Ed, scroll_col, width)
  /\ UNCHANGED <<lines, cursor_row, cursor_col, sel_anchor, undo_stack,
                 redo_stack, nkeys, probe, chain>>
  /\ UNCHANGED <<appVars, detail>>
  /\ \E toks \in Lexings(Join(lines)) :
       /\ tokens' = IF highlight_dirty THEN toks ELSE tokens
       /\ highlighted' = IF highlight_dirty THEN Rehighlighted(lines, toks)
                         ELSE highlighted


\* ======================================================================
\* The application: screen stack, background tasks and the event loop
\* ======================================================================
\* the application object's fields as one value
App == [stack |-> stack, running |-> running, notification |-> notification,
        screens |-> screens, tasks |-> tasks, navLog |-> navLog]

Top(stk) == stk[Len(stk)]
Front(stk) == SubSeq(stk, 1, Len(stk) - 1)

\* LeetCodeApp.current_screen (0 for None)
CurrentScreen(a) == IF Len(a.stack) > 0 THEN Top(a.stack) ELSE 0

\* _DIFF_CYCLE: the difficulties the d key steps through; a list screen's
\* query is the index of its _difficulty
NumDifficulties == 4

\* no reply of get_problem_list is displayed yet
NoQuery == -1

\* Screen.__init__ and the subclass constructors; owner is the detail screen
\* whose bound method a result screen gets as on_dismiss
NewScreen(kind, owner) ==
  [kind |-> kind, dirty |-> TRUE,
   loading |-> kind \in {"ProblemList", "ProblemDetail"},
   data |-> FALSE, code |-> FALSE, owner |-> owner,
   step |-> IF kind = "Login" THEN "method" ELSE "", busy |-> FALSE,
   query |-> 0, shown |-> NoQuery]

Invalidate(a, id) == [a EXCEPT !.screens[id].dirty = TRUE]

CreateTask(a, kind, id, at) ==
  [a EXCEPT !.tasks = Append(a.tasks, [kind |-> kind, scr |-> id, at |-> at, q |-> 0])]

\* a notification that leaves the dirty flag of the current screen alone
NotifyKeepsClean(a, msg) == [a EXCEPT !.notification = msg]

Notify(a, msg) ==
  LET a1 == [a EXCEPT !.notification = msg] IN
  IF CurrentScreen(a1) # 0 THEN Invalidate(a1, CurrentScreen(a1)) ELSE a1

Exit(a) == [a EXCEPT !.running = FALSE]

\* an on_enter that starts the fetch and leaves the dirty flag alone
OnEnterKeepsClean(a, id) ==
  LET k == a.screens[id].kind
  IN IF k = "ProblemList" /\ ~a.screens[id].data
       THEN CreateTask([a EXCEPT !.screens[id].loading = TRUE],
                       "fetch_problems", id, "new")
     ELSE IF k = "ProblemDetail" /\ ~a.screens[id].data
       THEN CreateTask(a, "fetch_detail", id, "wait")
     ELSE IF k = "Login" THEN [a EXCEPT !.screens[id].step = "method"]
     ELSE a

\* the on_enter of each screen class; none of them suspends
OnEnter(a, id) ==
  LET a1 == Invalidate(a, id)
      k == a.screens[id].kind
  IN IF k = "ProblemList" /\ ~a.screens[id].data
       THEN CreateTask([a1 EXCEPT !.screens[id].loading = TRUE],
                       "fetch_problems", id, "new")
     ELSE IF k = "ProblemDetail" /\ ~a.screens[id].data
       THEN CreateTask(a1, "fetch_detail", id, "wait")
     ELSE IF k = "Login" THEN [a1 EXCEPT !.screens[id].step = "method"]
     ELSE a1

\* one entry of the navigation history: the stack before and after the
\* call, the hooks it ran, and the running flag and the dirty flag of the
\* top screen when it returned
Nav(op, before, a, hooks) ==
  [a EXCEPT !.navLog = Append(a.navLog,
      [op |-> op, before |-> before, after |-> a.stack, hooks |-> hooks,
       running |-> a.running,
       dirty |-> Len(a.stack) > 0 /\ a.screens[Top(a.stack)].dirty])]

\* push_screen without the history entry
PushCore(a, kind, owner) ==
  LET id == Len(a.screens) + 1
      a1 == [a EXCEPT !.screens = Append(a.screens, NewScreen(kind, owner)),
                      !.stack = Append(a.stack, id)]
  IN OnEnter(a1, id)

PushScreen(a, kind, owner) ==
  Nav("push", a.stack, PushCore(a, kind, owner),
      << <<"on_enter", Len(a.screens) + 1>> >>)

\* pop_screen that signals exit whether or not a screen is left
PopScreenAlwaysExits(a) ==
  LET had == Len(a.stack) > 0
      old == CurrentScreen(a)
      a1 == IF had THEN [a EXCEPT !.stack = Front(a.stack)] ELSE a
      exits == IF had THEN << <<"on_exit", old>> >> ELSE <<>>
  IN IF Len(a1.stack) > 0
     THEN Nav("pop", a.stack, Exit(OnEnter(a1, Top(a1.stack))),
              exits \o << <<"on_enter", Top(a1.stack)>> >>)
     ELSE Nav("pop", a.stack, Exit(a1), exits)

PopScreen(a) ==
  LET had == Len(a.stack) > 0
      old == CurrentScreen(a)
      a1 == IF had THEN [a EXCEPT !.stack = Front(a.stack)] ELSE a
      exits == IF had THEN << <<"on_exit", old>> >> ELSE <<>>
  IN IF Len(a1.stack) > 0
     THEN Nav("pop", a.stack, OnEnter(a1, Top(a1.stack)),
              exits \o << <<"on_enter", Top(a1.stack)>> >>)
     ELSE Nav("pop", a.stack, Exit(a1), exits)

\* a replace_screen made of pop_screen() and push_screen(): the screen
\* beneath is entered, or exit() is called when the stack gets empty
ReplaceScreenPops(a, kind, owner) ==
  LET had == Len(a.stack) > 0
      a1 == IF had THEN [a EXCEPT !.stack = Front(a.stack)] ELSE a
      exits == IF had THEN << <<"on_exit", CurrentScreen(a)>> >> ELSE <<>>
      below == Len(a1.stack) > 0
      a2 == IF below THEN OnEnter(a1, Top(a1.stack)) ELSE Exit(a1)
      enters == IF below THEN << <<"on_enter", Top(a1.stack)>> >> ELSE <<>>
  IN Nav("replace", a.stack, PushCore(a2, kind, owner),
         exits \o enters \o << <<"on_enter", Len(a.screens) + 1>> >>)

ReplaceScreen(a, kind, owner) ==
  LET had == Len(a.stack) > 0
      a1 == IF had THEN [a EXCEPT !.stack = Front(a.stack)] ELSE a
      exits == IF had THEN << <<"on_exit", CurrentScreen(a)>> >> ELSE <<>>
  IN Nav("replace", a.stack, PushCore(a1, kind, owner),
         exits \o << <<"on_enter", Len(a.screens) + 1>> >>)

\* a re-login that removes only the top screen before showing the login screen
PopTopShowLogin(a, op) ==
  LET had == Len(a.stack) > 0
      a1 == IF had THEN [a EXCEPT !.stack = Front(a.stack)] ELSE a
      exits == IF had THEN << <<"on_exit", CurrentScreen(a)>> >> ELSE <<>>
  IN Nav(op, a.stack, PushCore(a1, "Login", 0),
         exits \o << <<"on_enter", Len(a.screens) + 1>> >>)

\* while self._screen_stack: old = pop(); await old.on_exit()
\* followed by _show_login()
PopAllShowLogin(a, op) ==
  LET n == Len(a.stack)
      exits == [i \in 1..n |-> <<"on_exit", a.stack[n + 1 - i]>>]
  IN Nav(op, a.stack, PushCore([a EXCEPT !.stack = <<>>], "Login", 0),
         exits \o << <<"on_enter", Len(a.screens) + 1>> >>)

Logout(a) == PopAllShowLogin(a, "logout")

ShowLoginOnAuthError(a) == CreateTask(Notify(a, "session"), "relogin", 0, "new")


\* ---------------------------------------------------------- key handlers
\* keys as the screens tell them apart
AppKeys == {"esc", "enter", "q", "s", "L", "r", "ctrl_t", "ctrl_s", "other"}

\* the _show_*_step methods: the step is set and the screen invalidated
ShowStep(a, id, step) == Invalidate([a EXCEPT !.screens[id].step = step], id)

\* the steps in which the screen is in input mode; "manual_sent" stands for
\* _step == "manual_csrf" with _input_mode False, after the value was sent
InputSteps == {"manual_session", "manual_csrf"}

\* LoginScreen.handle_key. second tells what the cursor or the input holds:
\* the second menu option ("Manual Cookie Entry") in menu mode, an input
\* that is empty after strip() in input mode.
LoginKey(a, id, k, second) ==
  LET step == a.screens[id].step IN
  IF a.screens[id].busy THEN a
  ELSE IF step \in InputSteps THEN
    IF k = "esc" THEN ShowStep(a, id, "method")
    ELSE IF k = "enter" THEN
      IF second THEN a
      ELSE IF step = "manual_session" THEN ShowStep(a, id, "manual_csrf")
      ELSE CreateTask([a EXCEPT !.screens[id].step = "manual_sent",
                                !.screens[id].busy = TRUE],
                      "validate_manual", id, "new")
    ELSE Invalidate(a, id)
  ELSE IF k = "other" THEN
    IF step \in {"method", "browser"} THEN Invalidate(a, id) ELSE a
  ELSE IF k = "enter" THEN
    IF step = "method"
      THEN ShowStep(a, id, IF second THEN "manual_session" ELSE "browser")
    ELSE IF step = "browser"
      THEN CreateTask([a EXCEPT !.screens[id].busy = TRUE],
                      "try_browser", id, "new")
    ELSE a
  ELSE IF k \in {"esc", "q"} THEN
    IF step # "method" THEN ShowStep(a, id, "method") ELSE Exit(a)
  ELSE a

\* ProblemListScreen.handle_key outside the search input; premium tells
\* whether the problem under the cursor is a paid one
ListKey(a, id, k, premium) ==
  IF k = "other" THEN Invalidate(a, id)
  ELSE IF k = "r" THEN CreateTask(a, "fetch_problems", id, "new")
  ELSE IF k = "d" THEN
    CreateTask([a EXCEPT !.screens[id].query = (@ + 1) % NumDifficulties],
               "fetch_problems", id, "new")
  ELSE IF k = "enter" THEN
    IF ~a.screens[id].data THEN a
    ELSE IF premium THEN Notify(a, "premium")
    ELSE PushScreen(a, "ProblemDetail", 0)
  ELSE IF k = "L" THEN Logout(a)
  ELSE IF k \in {"esc", "q"} THEN Exit(a)
  ELSE a

\* ProblemDetailScreen._action_test / _action_submit
ActionRun(a, id, kind) ==
  IF ~a.screens[id].data THEN a
  ELSE IF ~a.screens[id].code THEN Notify(a, "nocode")
  ELSE CreateTask(Invalidate(Notify(a, kind), id), kind, id, "wait")

\* ProblemDetailScreen.handle_key; keys that are not commands go to the editor
DetailKey(a, id, k) ==
  IF k = "ctrl_t" THEN ActionRun(a, id, "test")
  ELSE IF k = "ctrl_s" THEN ActionRun(a, id, "submit")
  ELSE IF k = "esc" THEN PopScreen(a)
  ELSE IF a.screens[id].data THEN Invalidate(a, id)
  ELSE a

\* TestResultScreen.handle_key with _dismiss and the on_dismiss callback
TestResultKey(a, id, k) ==
  IF k = "s" THEN
    LET a1 == PopScreen(a) IN
    IF a.screens[id].owner # 0 THEN ActionRun(a1, a.screens[id].owner, "submit")
    ELSE a1
  ELSE IF k = "esc" THEN PopScreen(a)
  ELSE IF k = "other" THEN Invalidate(a, id)
  ELSE a

\* SubmissionResultScreen.handle_key with _dismiss and the on_dismiss callback
SubmissionResultKey(a, id, k) ==
  IF k = "esc" THEN PopScreen(a)
  ELSE IF k = "q" THEN
    LET a1 == PopScreen(a) IN
    IF a.screens[id].owner # 0 THEN PopScreen(a1) ELSE a1
  ELSE IF k = "other" THEN Invalidate(a, id)
  ELSE a

\* screen.handle_key(key) for the screen object id
ScreenKey(a, id, k, premium) ==
  LET kind == a.screens[id].kind IN
  CASE kind = "Login" -> LoginKey(a, id, k, premium)
    [] kind = "ProblemList" -> ListKey(a, id, k, premium)
    [] kind = "ProblemDetail" -> DetailKey(a, id, k)
    [] kind = "TestResult" -> TestResultKey(a, id, k)
    [] kind = "SubmissionResult" -> SubmissionResultKey(a, id, k)

\* ------------------------------------------------------- background tasks
\* the first run of a task, up to its first suspension
TaskStarted(a, i) ==
  LET t == a.tasks[i] IN
  IF t.kind = "relogin"
    THEN PopAllShowLogin([a EXCEPT !.tasks = RemoveAt(a.tasks, i - 1)], "relogin")
  ELSE IF t.kind \in {"try_browser", "validate_manual"}
    THEN \* _set_status(...) and the first await of the login attempt
         [Invalidate(a, t.scr) EXCEPT !.tasks[i].at = "login"]
  ELSE \* _fetch_problems up to the awaited request, whose arguments are
       \* the screen's fields at this moment
    [Invalidate([a EXCEPT !.screens[t.scr].loading = TRUE], t.scr)
       EXCEPT !.tasks[i].at = "wait", !.tasks[i].q = a.screens[t.scr].query]

Outcomes == {"ok", "auth", "error"}

\* a completion that swallows every error other than the authentication error
TaskFinishedDropsError(a, i, outcome, has) ==
  LET t == a.tasks[i]
      a0 == [a EXCEPT !.tasks = RemoveAt(a.tasks, i - 1)]
      a1 == [a0 EXCEPT !.screens[t.scr].loading = FALSE]
  IN
  IF t.kind \in {"fetch_problems", "fetch_detail"} THEN
    IF outcome = "ok"
      THEN Invalidate([a1 EXCEPT !.screens[t.scr].data =
                                    (t.kind = "fetch_detail" \/ has),
                                 !.screens[t.scr].code =
                                    (t.kind = "fetch_detail" /\ has),
                                 !.screens[t.scr].shown =
                                    IF t.kind = "fetch_problems" THEN t.q
                                    ELSE @], t.scr)
    ELSE IF outcome = "auth" THEN ShowLoginOnAuthError(a1)
    ELSE a1
  ELSE \* _run of _action_test / _action_submit
    IF outcome = "ok"
      THEN PushScreen(a0, IF t.kind = "test" THEN "TestResult"
                          ELSE "SubmissionResult", t.scr)
    ELSE IF outcome = "auth" THEN ShowLoginOnAuthError(a0)
    ELSE a0

\* the rest of a task once the awaited request has returned or raised;
\* has tells whether the reply carries problems (code for a detail)
TaskFinished(a, i, outcome, has) ==
  LET t == a.tasks[i]
      a0 == [a EXCEPT !.tasks = RemoveAt(a.tasks, i - 1)]
      a1 == [a0 EXCEPT !.screens[t.scr].loading = FALSE]
  IN
  IF t.kind \in {"fetch_problems", "fetch_detail"} THEN
    IF outcome = "ok"
      THEN Invalidate([a1 EXCEPT !.screens[t.scr].data =
                                    (t.kind = "fetch_detail" \/ has),
                                 !.screens[t.scr].code =
                                    (t.kind = "fetch_detail" /\ has),
                                 !.screens[t.scr].shown =
                                    IF t.kind = "fetch_problems" THEN t.q
                                    ELSE @], t.scr)
    ELSE IF outcome = "auth" THEN ShowLoginOnAuthError(a1)
    ELSE Invalidate(Notify(a1, "error"), t.scr)
  ELSE \* _run of _action_test / _action_submit
    IF outcome = "ok"
      THEN PushScreen(a0, IF t.kind = "test" THEN "TestResult"
                          ELSE "SubmissionResult", t.scr)
    ELSE IF outcome = "auth" THEN ShowLoginOnAuthError(a0)
    ELSE Invalidate(Notify(a0, "error"), t.scr)

\* how an attempt to log in ends once its awaits have returned: the session
\* is valid, it is not, an error was caught, or (in _try_browser only) an
\* error was raised by the validation inside the handler of
\* BrowserAlreadyRunningError, which no except clause of the method catches
LoginOutcomes == {"valid", "invalid", "error", "escape"}

\* _try_browser and _validate_manual from the first await up to the await
\* inside app.on_login_result (valid) or up to their end
LoginAttemptEnded(a, i, outcome) ==
  LET t == a.tasks[i]
      a0 == [a EXCEPT !.tasks = RemoveAt(a.tasks, i - 1)]
      idle == [Invalidate(a, t.scr) EXCEPT !.screens[t.scr].busy = FALSE]
  IN IF outcome = "valid" THEN [idle EXCEPT !.tasks[i].at = "check"]
     ELSE IF outcome = "escape" THEN Invalidate(a0, t.scr)
     ELSE ShowStep([idle EXCEPT !.tasks = RemoveAt(a.tasks, i - 1)], t.scr,
                   IF t.kind = "try_browser" THEN "browser"
                   ELSE "manual_session")

\* the rest of app.on_login_result once validate_session has returned in
\* _check_session: the problem list replaces the top screen, or a new login
\* screen is pushed when the server says the session is not valid
LoginChecked(a, i, outcome) ==
  LET a0 == [a EXCEPT !.tasks = RemoveAt(a.tasks, i - 1)]
  IN IF outcome = "invalid" THEN PushScreen(a0, "Login", 0)
     ELSE ReplaceScreen(a0, "ProblemList", 0)


\* ---------------------------------------------------------- the event loop
\* an exception that no except clause catches leaves run()
Propagates == "crashed"

\* a render error that ends the tick at once
EndsTick == "top"

\* where run() goes on after each except clause of the loop body
AfterRenderError == "sleep"

AfterPollError == "backoff"

AfterHandlerError == "top"

NoTick == [rfail |-> FALSE, polled |-> FALSE, gotkey |-> FALSE,
           dispatched |-> FALSE]

AppBounded(a) == Len(a.screens) <= MaxScreens /\ Len(a.tasks) <= MaxTasks

SetApp(a) ==
  \E v \in {a} :
    /\ AppBounded(v)
    /\ stack' = v.stack
    /\ running' = v.running
    /\ notification' = v.notification
    /\ screens' = v.screens
    /\ tasks' = v.tasks
    /\ navLog' = v.navLog

AppInit ==
  /\ stack = <<>>
  /\ running = FALSE
  /\ notification = ""
  /\ screens = <<>>
  /\ tasks = <<>>
  /\ pc = "init"
  /\ screen = 0
  /\ inkey = ""
  /\ closed = 0
  /\ navLog = <<>>
  /\ tick = NoTick
  /\ prevFail = FALSE

\* run() up to the loop: _startup() shows the login screen or, with a saved
\* session that is valid or cannot be checked, the problem list
Startup(first) ==
  /\ pc = "init"
  /\ SetApp(IF first = "Login"
            THEN PushScreen([App EXCEPT !.running = TRUE], "Login", 0)
            ELSE ReplaceScreen([App EXCEPT !.running = TRUE], "ProblemList", 0))
  /\ pc' = "top"
  /\ UNCHANGED <<edVars, detail>>
  /\ UNCHANGED <<screen, inkey, closed, tick, prevFail>>

\* _startup() raises: run() logs and returns
StartupFail ==
  /\ pc = "init"
  /\ running' = TRUE
  /\ pc' = "done"
  /\ UNCHANGED <<edVars, detail>>
  /\ UNCHANGED <<stack, notification, screens, tasks, screen, inkey, closed,
                 navLog, tick, prevFail>>

\* a loop head that tests only the stack and not the running flag
LoopEnterIgnoresExit(resized) ==
  /\ pc = "top"
  /\ Len(stack) > 0
  /\ screen' = Top(stack)
  /\ screens' = IF resized THEN [screens EXCEPT ![Top(stack)].dirty = TRUE]
                ELSE screens
  /\ pc' = "render"
  /\ prevFail' = tick.rfail
  /\ tick' = NoTick
  /\ navLog' = <<>>
  /\ UNCHANGED <<edVars, detail>>
  /\ UNCHANGED <<stack, running, notification, tasks, inkey, closed>>

\* while self._running: screen = self.current_screen; screen.check_resize()
LoopEnter(resized) ==
  /\ pc = "top"
  /\ running /\ Len(stack) > 0
  /\ screen' = Top(stack)
  /\ screens' = IF resized THEN [screens EXCEPT ![Top(stack)].dirty = TRUE]
                ELSE screens
  /\ pc' = "render"
  /\ prevFail' = tick.rfail
  /\ tick' = NoTick
  /\ navLog' = <<>>
  /\ UNCHANGED <<edVars, detail>>
  /\ UNCHANGED <<stack, running, notification, tasks, inkey, closed>>

LoopExit ==
  /\ pc = "top"
  /\ ~(running /\ Len(stack) > 0)
  /\ pc' = "cleanup"
  /\ UNCHANGED <<edVars, detail>>
  /\ UNCHANGED <<stack, running, notification, screens, tasks, screen, inkey,
                 closed, navLog, tick, prevFail>>

RenderSkip ==
  /\ pc = "render"
  /\ ~screens[screen].dirty
  /\ pc' = "sleep"
  /\ UNCHANGED <<edVars, detail>>
  /\ UNCHANGED <<stack, running, notification, screens, tasks, screen, inkey,
                 closed, navLog, tick, prevFail>>

RenderOk ==
  /\ pc = "render"
  /\ screens[screen].dirty
  /\ screens' = [screens EXCEPT ![screen].dirty = FALSE]
  /\ pc' = "sleep"
  /\ UNCHANGED <<edVars, detail>>
  /\ UNCHANGED <<stack, running, notification, tasks, screen, inkey, closed,
                 navLog, tick, prevFail>>

RenderRaise ==
  /\ pc = "render"
  /\ screens[screen].dirty
  /\ screens' = [screens EXCEPT ![screen].dirty = FALSE]
  /\ tick' = [tick EXCEPT !.rfail = TRUE]
  /\ pc' = AfterRenderError
  /\ UNCHANGED <<edVars, detail>>
  /\ UNCHANGED <<stack, running, notification, tasks, screen, inkey, closed,
                 navLog, prevFail>>

\* a task that has not run yet is ahead of run() in the ready queue
NoNewTask == \A i \in 1..Len(tasks) : tasks[i].at # "new"

\* a sleep(0) that returns before the tasks created so far have run
YieldAhead ==
  /\ pc = "sleep"
  /\ pc' = "poll"
  /\ UNCHANGED <<edVars, detail>>
  /\ UNCHANGED <<stack, running, notification, screens, tasks, screen, inkey,
                 closed, navLog, tick, prevFail>>

\* await asyncio.sleep(0) returns
Yield ==
  /\ pc = "sleep"
  /\ NoNewTask
  /\ pc' = "poll"
  /\ UNCHANGED <<edVars, detail>>
  /\ UNCHANGED <<stack, running, notification, screens, tasks, screen, inkey,
                 closed, navLog, tick, prevFail>>

PollKey(k) ==
  /\ pc = "poll"
  /\ NoNewTask
  /\ inkey' = k
  /\ tick' = [tick EXCEPT !.polled = TRUE, !.gotkey = TRUE]
  /\ pc' = "dispatch"
  /\ UNCHANGED <<edVars, detail>>
  /\ UNCHANGED <<stack, running, notification, screens, tasks, screen, closed,
                 navLog, prevFail>>

PollNone ==
  /\ pc = "poll"
  /\ NoNewTask
  /\ tick' = [tick EXCEPT !.polled = TRUE]
  /\ pc' = "top"
  /\ UNCHANGED <<edVars, detail>>
  /\ UNCHANGED <<stack, running, notification, screens, tasks, screen, inkey,
                 closed, navLog, prevFail>>

PollRaise ==
  /\ pc = "poll"
  /\ NoNewTask
  /\ tick' = [tick EXCEPT !.polled = TRUE]
  /\ pc' = AfterPollError
  /\ UNCHANGED <<edVars, detail>>
  /\ UNCHANGED <<stack, running, notification, screens, tasks, screen, inkey,
                 closed, navLog, prevFail>>

\* await asyncio.sleep(0.05); continue
Backoff ==
  /\ pc = "backoff"
  /\ NoNewTask
  /\ pc' = "top"
  /\ UNCHANGED <<edVars, detail>>
  /\ UNCHANGED <<stack, running, notification, screens, tasks, screen, inkey,
                 closed, navLog, tick, prevFail>>

\* await screen.handle_key(key) returns
Dispatch(premium) ==
  /\ pc = "dispatch"
  /\ SetApp(ScreenKey([App EXCEPT !.navLog = <<>>], screen, inkey, premium))
  /\ tick' = [tick EXCEPT !.dispatched = TRUE]
  /\ pc' = "top"
  /\ inkey' = ""
  /\ UNCHANGED <<edVars, detail>>
  /\ UNCHANGED <<screen, closed, prevFail>>

\* await screen.handle_key(key) raises, before the handler has changed
\* anything or (late) after it has done all its work
DispatchRaise(premium, late) ==
  /\ pc = "dispatch"
  /\ SetApp(IF late
            THEN ScreenKey([App EXCEPT !.navLog = <<>>], screen, inkey, premium)
            ELSE App)
  /\ tick' = [tick EXCEPT !.dispatched = TRUE]
  /\ pc' = AfterHandlerError
  /\ inkey' = ""
  /\ UNCHANGED <<edVars, detail>>
  /\ UNCHANGED <<screen, closed, prevFail>>

\* await self.client.close()
Cleanup ==
  /\ pc = "cleanup"
  /\ closed' = closed + 1
  /\ pc' = "done"
  /\ UNCHANGED <<edVars, detail>>
  /\ UNCHANGED <<stack, running, notification, screens, tasks, screen, inkey,
                 navLog, tick, prevFail>>

\* run() is suspended in an await of the loop body
Suspended == pc \in {"sleep", "poll", "backoff"}

TaskStart(i) ==
  /\ Suspended
  /\ tasks[i].at = "new"
  /\ \A j \in 1..(i - 1) : tasks[j].at # "new"
  /\ SetApp(TaskStarted([App EXCEPT !.navLog = <<>>], i))
  /\ UNCHANGED <<edVars, detail>>
  /\ UNCHANGED <<pc, screen, inkey, closed, tick, prevFail>>

TaskDone(i, outcome, has) ==
  /\ Suspended
  /\ tasks[i].at = "wait"
  /\ SetApp(TaskFinished([App EXCEPT !.navLog = <<>>], i, outcome, has))
  /\ UNCHANGED <<edVars, detail>>
  /\ UNCHANGED <<pc, screen, inkey, closed, tick, prevFail>>

\* a login attempt ends, or gets as far as app.on_login_result
LoginTaskDone(i, outcome) ==
  /\ Suspended
  /\ tasks[i].at = "login"
  /\ outcome = "escape" => tasks[i].kind = "try_browser"
  /\ SetApp(LoginAttemptEnded([App EXCEPT !.navLog = <<>>], i, outcome))
  /\ UNCHANGED <<edVars, detail>>
  /\ UNCHANGED <<pc, screen, inkey, closed, tick, prevFail>>

\* validate_session returns or raises in _check_session
LoginCheckDone(i, outcome) ==
  /\ Suspended
  /\ tasks[i].at = "check"
  /\ outcome # "escape"
  /\ SetApp(LoginChecked([App EXCEPT !.navLog = <<>>], i, outcome))
  /\ UNCHANGED <<edVars, detail>>
  /\ UNCHANGED <<pc, screen, inkey, closed, tick, prevFail>>

AppNext ==
  \/ \E first \in {"Login", "ProblemList"} : Startup(first)
  \/ StartupFail
  \/ \E resized \in BOOLEAN : LoopEnter(resized)
  \/ LoopExit
  \/ RenderSkip
  \/ RenderOk
  \/ RenderRaise
  \/ Yield
  \/ \E k \in AppKeys : PollKey(k)
  \/ PollNone
  \/ PollRaise
  \/ Backoff
  \/ \E premium \in BOOLEAN : Dispatch(premium)
  \/ \E premium \in BOOLEAN, late \in BOOLEAN : DispatchRaise(premium, late)
  \/ Cleanup
  \/ \E i \in 1..Len(tasks) : TaskStart(i)
  \/ \E i \in 1..Len(tasks), outcome \in Outcomes, has \in BOOLEAN :
        TaskDone(i, outcome, has)

\* ------------------------------------------------ the problem-detail screen
\* One ProblemDetailScreen whose _editor is the editor of the first part.
\* The record detail holds the screen's fields: has_detail (_detail is set),
\* editor (_editor is set), loading, lang_index, view_mode, unsaved (the
\* screen's _dirty), dirty (Screen.dirty), desc_scroll, desc_len and
\* split_len (the lengths of _desc_lines and of the rewrapped raw lines),
\* popped (Esc has popped the screen) and files, the solution file of each
\* language. What the keys do to the application (notifications, tasks,
\* the screen stack) is DetailKey above.

\* detail.code_snippets[i].code
Snippet(i) == IF i = 0 THEN <<" ", "a", "\n", "a">> ELSE <<"a">>

\* the keystroke of Ctrl and a letter, compared by its string value
CtrlKey(c) == Key("", c)

DetailKeys ==
  {CtrlKey(c) : c \in {"^T", "^S", "^L", "^D"}}
    \cup {Key(n, "") : n \in {"KEY_ESCAPE", "kUP5", "kUP3", "kDN5", "kDN3"}}
    \cup MoveKeys \cup SelectKeys \cup EditKeys \cup UndoKeys \cup RedoKeys

DetailInit ==
  detail = [has_detail |-> FALSE, editor |-> FALSE, loading |-> TRUE,
            lang_index |-> 0, view_mode |-> "split", unsaved |-> FALSE,
            dirty |-> TRUE, desc_scroll |-> 0, desc_len |-> 0,
            split_len |-> 0, popped |-> FALSE,
            files |-> [i \in 0..(NumLangs - 1) |->
                         [exists |-> FALSE, text |-> <<>>]]]

\* CodeEditor.set_text(t) as a value; the scroll offsets are reset by the
\* action that installs it
SetTextValue(e, t) ==
  [e EXCEPT !.lines = IF t # <<>> THEN Split(t) ELSE << <<>> >>,
            !.row = 0, !.col = 0, !.anchor = None, !.undo = <<>>,
            !.redo = <<>>, !.hdirty = TRUE, !.dirty = TRUE]

LoadCode(d) ==
  IF ~d.has_detail THEN <<>>
  ELSE IF d.files[d.lang_index].exists THEN d.files[d.lang_index].text
  ELSE Snippet(d.lang_index)

SaveCode(d, e) ==
  IF ~d.unsaved \/ ~d.editor THEN d
  ELSE [d EXCEPT !.unsaved = FALSE,
                 !.files[d.lang_index] = [exists |-> TRUE, text |-> Join(e.lines)]]

\* the outcome of a handler: the screen, the editor, and whether set_text ran
Outcome(d, e, reset) == [d |-> d, e |-> e, reset |-> reset]

\* _action_test and _action_submit up to the task they create; nothing is
\* started when code.strip() is empty
ActionCheck(d, e) ==
  IF ~d.has_detail THEN Outcome(d, e, FALSE)
  ELSE LET d1 == SaveCode(d, e)
           code == IF d.editor THEN Join(e.lines) ELSE <<>>
       IN IF \E i \in 1..Len(code) : code[i] \notin {" ", "\t", "\n"}
          THEN Outcome([d1 EXCEPT !.dirty = TRUE], e, FALSE)
          ELSE Outcome(d1, e, FALSE)

ActionNextLang(d, e) ==
  IF ~d.has_detail THEN Outcome(d, e, FALSE)
  ELSE LET d1 == SaveCode(d, e)
           d2 == [d1 EXCEPT !.lang_index = (d.lang_index + 1) % NumLangs]
       IN Outcome([d2 EXCEPT !.unsaved = FALSE, !.dirty = TRUE],
                  IF d.editor THEN SetTextValue(e, LoadCode(d2)) ELSE e,
                  d.editor)

\* max_scroll of the description in the view mode m
MaxScroll(d, m) ==
  Max(0, (IF m = "desc" THEN d.desc_len ELSE d.split_len) - ContentHeight)

\* the description moves one line up (dir = -1) or down (dir = 1) when there
\* is room
ScrollLine(d, dir) ==
  IF (dir = -1 /\ d.desc_scroll > 0)
       \/ (dir = 1 /\ d.desc_scroll < MaxScroll(d, d.view_mode))
  THEN [d EXCEPT !.desc_scroll = d.desc_scroll + dir, !.dirty = TRUE]
  ELSE d

\* the description moves one page up or down
ScrollPage(d, dir) ==
  [d EXCEPT !.desc_scroll =
              IF dir = -1 THEN Max(0, d.desc_scroll - ContentHeight)
              ELSE Min(MaxScroll(d, d.view_mode), d.desc_scroll + ContentHeight),
            !.dirty = TRUE]

\* consumed = self._editor.handle_key(key) with what follows it; handle_key
\* returns True for every key it has a branch for
ToEditor(d, e, key) ==
  IF ~d.editor THEN Outcome(d, e, FALSE)
  ELSE LET r == HandleKey(e, key)
           consumed ==
             \/ key.name \in ShiftMoveNames \cup PlainMoveNames \cup EditNames
             \/ key.ch # ""
       IN IF consumed /\ ~r.err
          THEN Outcome([d EXCEPT !.unsaved = TRUE, !.dirty = TRUE], r, FALSE)
          ELSE Outcome(d, r, FALSE)

\* ProblemDetailScreen.handle_key(key)
DetailHandle(d, e, key) ==
  IF key \in {CtrlKey("^T"), CtrlKey("^S")} THEN ActionCheck(d, e)
  ELSE IF key = CtrlKey("^L") THEN ActionNextLang(d, e)
  ELSE IF key = CtrlKey("^D")
    THEN Outcome([d EXCEPT !.view_mode = CASE @ = "desc" -> "split"
                                           [] @ = "split" -> "editor"
                                           [] @ = "editor" -> "desc",
                           !.dirty = TRUE], e, FALSE)
  ELSE IF key.name = "KEY_ESCAPE"
    THEN Outcome([SaveCode(d, e) EXCEPT !.popped = TRUE], e, FALSE)
  ELSE IF d.view_mode = "desc" THEN
    IF key.name \in {"kUP5", "kUP3", "KEY_UP"}
      THEN Outcome(ScrollLine(d, -1), e, FALSE)
    ELSE IF key.name \in {"kDN5", "kDN3", "KEY_DOWN"}
      THEN Outcome(ScrollLine(d, 1), e, FALSE)
    ELSE IF key.name = "KEY_PGUP" THEN Outcome(ScrollPage(d, -1), e, FALSE)
    ELSE IF key.name = "KEY_PGDOWN" THEN Outcome(ScrollPage(d, 1), e, FALSE)
    ELSE Outcome(d, e, FALSE)
  ELSE IF d.view_mode = "split" THEN
    IF key.name \in {"kUP5", "kUP3"} THEN Outcome(ScrollLine(d, -1), e, FALSE)
    ELSE IF key.name \in {"kDN5", "kDN3"}
      THEN Outcome(ScrollLine(d, 1), e, FALSE)
    ELSE IF key.name = "KEY_PGUP" THEN Outcome(ScrollPage(d, -1), e, FALSE)
    ELSE IF key.name = "KEY_PGDOWN" THEN Outcome(ScrollPage(d, 1), e, FALSE)
    ELSE ToEditor(d, e, key)
  ELSE ToEditor(d, e, key)

\* the screen and its editor take the values of the outcome o
Install(o) ==
  /\ detail' = o.d
  /\ lines' = o.e.lines
  /\ cursor_row' = o.e.row
  /\ cursor_col' = o.e.col
  /\ sel_anchor' = o.e.anchor
  /\ undo_stack' = o.e.undo
  /\ redo_stack' = o.e.redo
  /\ highlight_dirty' = o.e.hdirty
  /\ dirty' = o.e.dirty
  /\ scroll_row' = (IF o.reset THEN 0 ELSE scroll_row)
  /\ scroll_col' = (IF o.reset THEN 0 ELSE scroll_col)
  /\ UNCHANGED <<highlighted, tokens, probe, chain>>
  /\ UNCHANGED appVars

\* the active detail screen handles one key; an edit that would grow the
\* buffer past MaxLines x MaxLineLen is not taken
DetailHandleKey(key) ==
  \E o \in {DetailHandle(detail, Ed, key)} :
    /\ ~detail.popped
    /\ nkeys < MaxDetailKeys
    /\ key \in EditKeys => Bounded(o.e)
    /\ nkeys' = nkeys + 1
    /\ Install(o)

\* _fetch_detail(): the reply arrives. lang is the index of the preferred
\* language among the snippets (0 when it is not among them).
FetchDetail(reply, lang) ==
  /\ detail.loading
  /\ UNCHANGED nkeys
  /\ \E d \in {[detail EXCEPT !.loading = FALSE, !.dirty = TRUE]} :
       CASE reply = "ok" ->
              LET d1 == [d EXCEPT !.has_detail = TRUE, !.lang_index = lang,
                                  !.desc_len = DescLines,
                                  !.split_len = SplitLines]
              IN Install(Outcome([d1 EXCEPT !.editor = TRUE],
                                 SetTextValue(Ed, LoadCode(d1)), TRUE))
         [] reply = "premium" ->
              Install(Outcome([d EXCEPT !.has_detail = TRUE,
                                        !.desc_len = PremiumLines,
                                        !.split_len = PremiumLines],
                              Ed, FALSE))
         [] OTHER -> Install(Outcome(d, Ed, FALSE))

Init == EdInit /\ AppInit /\ DetailInit

EdNext ==
  \/ \E t \in Texts : SetText(t)
  \/ \E k \in MoveKeys : MoveKey(k)
  \/ \E k \in SelectKeys : SelectKey(k)
  \/ \E k \in EditKeys : EditKey(k)
  \/ \E k \in UndoKeys : UndoKey(k)
  \/ \E k \in RedoKeys : RedoKey(k)

\* the editor with render(), over shorter key sequences
ViewKey == nkeys < MaxViewKeys

ViewNext ==
  \/ \E t \in Texts : ViewKey /\ SetText(t)
  \/ \E k \in MoveKeys : ViewKey /\ MoveKey(k)
  \/ \E k \in SelectKeys : ViewKey /\ SelectKey(k)
  \/ \E k \in EditKeys : ViewKey /\ EditKey(k)
  \/ \E k \in UndoKeys : ViewKey /\ UndoKey(k)
  \/ \E k \in RedoKeys : ViewKey /\ RedoKey(k)
  \/ \E w \in 1..MaxWidth, h \in 1..MaxHeight : Render(w, h)

SpecEd == Init /\ [][EdNext]_vars

SpecView == Init /\ [][ViewNext]_vars

\* set_text on a new editor followed by _rehighlight over every admissible
\* lexer output
HlNext ==
  \/ \E t \in HlTexts : highlighted = <<>> /\ SetText(t)
  \/ \E toks \in Tokenizations(Join(lines)) : Rehighlight(toks)

SpecHl == Init /\ [][HlNext]_vars

\* texts handed to set_text before the word movements are examined
WordChars == {"a", " ", "\n"}

WordTexts == UNION { [1..n -> WordChars] : n \in 0..MaxWordLen }

WordKeys == {Key("kLFT5", ""), Key("kRIT5", "")}

\* set_text on a new editor followed by Ctrl+Left and Ctrl+Right keys
WordNext ==
  \/ \E t \in WordTexts : nkeys = 0 /\ SetText(t)
  \/ \E k \in WordKeys : MoveKey(k)

SpecWord == Init /\ [][WordNext]_vars

\* texts handed to set_text before every kind of key is tried
BufChars == {"a", "\n"}

BufTexts == UNION { [1..n -> BufChars] : n \in 0..MaxBufLen }

BufKey == nkeys < MaxBufKeys

\* set_text of every short text, the empty one included, on a new editor or
\* after keys, and up to MaxBufKeys keys of every kind
BufNext ==
  \/ \E t \in BufTexts : (nkeys = 0 \/ nkeys = MaxBufKeys) /\ SetText(t)
  \/ \E k \in MoveKeys : BufKey /\ MoveKey(k)
  \/ \E k \in SelectKeys : BufKey /\ SelectKey(k)
  \/ \E k \in EditKeys : BufKey /\ EditKey(k)
  \/ \E k \in UndoKeys : BufKey /\ UndoKey(k)
  \/ \E k \in RedoKeys : BufKey /\ RedoKey(k)

SpecBuf == Init /\ [][BufNext]_vars

SpecApp == Init /\ [][AppNext]_vars

\* the detail screen: the reply of the fetch and up to MaxDetailKeys keys
DetailNext ==
  \/ \E reply \in {"ok", "premium", "error"}, lang \in 0..(NumLangs - 1) :
        FetchDetail(reply, lang)
  \/ \E k \in DetailKeys : DetailHandleKey(k)

SpecDetail == Init /\ [][DetailNext]_vars

\* texts whose last row is just below, at and above one page, and more than
\* two pages: the first line is "aa", the last one "a", the others are empty
PageTexts ==
  { <<"a", "a">> \o [i \in 1..n |-> "\n"] \o <<"a">> :
      n \in {PageRows - 1, PageRows, PageRows + 1, MaxPageRow} }

\* set_text of a tall text on a new editor followed by vertical movements,
\* End and Right
PageNext ==
  \/ \E t \in PageTexts : nkeys = 0 /\ SetText(t)
  \/ \E n \in {"KEY_UP", "KEY_DOWN", "KEY_PGUP", "KEY_PGDOWN", "KEY_END",
               "KEY_RIGHT"} : MoveKey(Key(n, ""))
  \/ \E n \in {"kUP2", "kDN2"} : SelectKey(Key(n, ""))

SpecPage == Init /\ [][PageNext]_vars

\* texts with an indentation of a tab and a space, with a line of blanks only
\* and without indentation, each followed by a second line
EnterTexts ==
  { <<"\t", " ", "a", "\n", "a">>, <<" ", " ", "\n", "a">>,
    <<"a", "a", "\n", " ">> }

\* set_text of an indented text on a new editor followed by Enter and the
\* movements that bring the cursor to every position
EnterNext ==
  \/ \E t \in EnterTexts : nkeys = 0 /\ SetText(t)
  \/ \E n \in {"KEY_RIGHT", "KEY_DOWN", "KEY_END"} : MoveKey(Key(n, ""))
  \/ EditKey(Key("KEY_ENTER", ""))

SpecEnter == Init /\ [][EnterNext]_vars

\* the steps of run() itself
LoopStep ==
  \/ \E resized \in BOOLEAN : LoopEnter(resized)
  \/ LoopExit
  \/ RenderSkip
  \/ RenderOk
  \/ RenderRaise
  \/ Yield
  \/ \E k \in AppKeys : PollKey(k)
  \/ PollNone
  \/ PollRaise
  \/ Backoff
  \/ \E premium \in BOOLEAN : Dispatch(premium)
  \/ \E premium \in BOOLEAN, late \in BOOLEAN : DispatchRaise(premium, late)
  \/ Cleanup

\* The asyncio loop resumes run() whenever its await can return: sleep(0)
\* and sleep(0.05) return, inkey returns after its 0.05 s timeout, and the
\* key handlers do not suspend.  A task that was created is started.  No
\* assumption is made that a request in flight is ever answered.
FairBounded == Len(screens') <= MaxFairScreens /\ Len(tasks') <= MaxFairTasks

\* the application over fewer screens and tasks, for the progress properties
FairNext ==
  \/ \E first \in {"Login", "ProblemList"} : Startup(first) /\ FairBounded
  \/ StartupFail /\ FairBounded
  \/ \E resized \in BOOLEAN : LoopEnter(resized) /\ FairBounded
  \/ LoopExit /\ FairBounded
  \/ RenderSkip /\ FairBounded
  \/ RenderOk /\ FairBounded
  \/ RenderRaise /\ FairBounded
  \/ Yield /\ FairBounded
  \/ \E k \in AppKeys : PollKey(k) /\ FairBounded
  \/ PollNone /\ FairBounded
  \/ PollRaise /\ FairBounded
  \/ Backoff /\ FairBounded
  \/ \E premium \in BOOLEAN : Dispatch(premium) /\ FairBounded
  \/ \E premium \in BOOLEAN, late \in BOOLEAN :
        DispatchRaise(premium, late) /\ FairBounded
  \/ Cleanup /\ FairBounded
  \/ \E i \in 1..Len(tasks) : TaskStart(i) /\ FairBounded
  \/ \E i \in 1..Len(tasks), outcome \in Outcomes, has \in BOOLEAN :
        TaskDone(i, outcome, has) /\ FairBounded

SpecAppFair ==
  /\ Init /\ [][FairNext]_vars
  /\ WF_vars(LoopStep /\ FairBounded)
  /\ WF_vars(\E i \in 1..Len(tasks) : TaskStart(i) /\ FairBounded)

\* The application with the login attempts answered, over fewer screens and
\* tasks.  (In SpecApp and SpecAppFair a login attempt that was started is
\* a request that is never answered.)
LoginBounded ==
  Len(screens') <= MaxLoginScreens /\ Len(tasks') <= MaxLoginTasks

LoginNext ==
  \/ \E first \in {"Login", "ProblemList"} : Startup(first) /\ LoginBounded
  \/ StartupFail /\ LoginBounded
  \/ \E resized \in BOOLEAN : LoopEnter(resized) /\ LoginBounded
  \/ LoopExit /\ LoginBounded
  \/ RenderSkip /\ LoginBounded
  \/ RenderOk /\ LoginBounded
  \/ RenderRaise /\ LoginBounded
  \/ Yield /\ LoginBounded
  \/ \E k \in AppKeys : PollKey(k) /\ LoginBounded
  \/ PollNone /\ LoginBounded
  \/ PollRaise /\ LoginBounded
  \/ Backoff /\ LoginBounded
  \/ \E premium \in BOOLEAN : Dispatch(premium) /\ LoginBounded
  \/ \E premium \in BOOLEAN, late \in BOOLEAN :
        DispatchRaise(premium, late) /\ LoginBounded
  \/ Cleanup /\ LoginBounded
  \/ \E i \in 1..Len(tasks) : TaskStart(i) /\ LoginBounded
  \/ \E i \in 1..Len(tasks), outcome \in Outcomes, has \in BOOLEAN :
        TaskDone(i, outcome, has) /\ LoginBounded
  \/ \E i \in 1..Len(tasks), outcome \in LoginOutcomes :
        LoginTaskDone(i, outcome) /\ LoginBounded
  \/ \E i \in 1..Len(tasks), outcome \in LoginOutcomes :
        LoginCheckDone(i, outcome) /\ LoginBounded

SpecLogin == Init /\ [][LoginNext]_vars

\* The problem list with a saved session, the keys that ask for the list
\* again, and requests that are all answered with a list.
ListKeys == {"d", "r", "q"}

ListBounded == Len(screens') <= 1 /\ Len(tasks') <= MaxListTasks

ListNext ==
  \/ Startup("ProblemList") /\ ListBounded
  \/ \E resized \in BOOLEAN : LoopEnter(resized) /\ ListBounded
  \/ LoopExit /\ ListBounded
  \/ RenderSkip /\ ListBounded
  \/ RenderOk /\ ListBounded
  \/ Yield /\ ListBounded
  \/ \E k \in ListKeys : PollKey(k) /\ ListBounded
  \/ PollNone /\ ListBounded
  \/ Dispatch(FALSE) /\ ListBounded
  \/ Cleanup /\ ListBounded
  \/ \E i \in 1..Len(tasks) : TaskStart(i) /\ ListBounded
  \/ \E i \in 1..Len(tasks), has \in BOOLEAN :
        TaskDone(i, "ok", has) /\ ListBounded

SpecList == Init /\ [][ListNext]_vars

LoginFairBounded ==
  Len(screens') <= MaxLoginFairScreens /\ Len(tasks') <= MaxLoginTasks

\* the same over fewer screens, for the progress of a login attempt
LoginFairNext ==
  \/ \E first \in {"Login", "ProblemList"} : Startup(first) /\ LoginFairBounded
  \/ StartupFail /\ LoginFairBounded
  \/ \E resized \in BOOLEAN : LoopEnter(resized) /\ LoginFairBounded
  \/ LoopExit /\ LoginFairBounded
  \/ RenderSkip /\ LoginFairBounded
  \/ RenderOk /\ LoginFairBounded
  \/ RenderRaise /\ LoginFairBounded
  \/ Yield /\ LoginFairBounded
  \/ \E k \in AppKeys : PollKey(k) /\ LoginFairBounded
  \/ PollNone /\ LoginFairBounded
  \/ PollRaise /\ LoginFairBounded
  \/ Backoff /\ LoginFairBounded
  \/ \E premium \in BOOLEAN : Dispatch(premium) /\ LoginFairBounded
  \/ \E premium \in BOOLEAN, late \in BOOLEAN :
        DispatchRaise(premium, late) /\ LoginFairBounded
  \/ Cleanup /\ LoginFairBounded
  \/ \E i \in 1..Len(tasks) : TaskStart(i) /\ LoginFairBounded
  \/ \E i \in 1..Len(tasks), outcome \in Outcomes, has \in BOOLEAN :
        TaskDone(i, outcome, has) /\ LoginFairBounded
  \/ \E i \in 1..Len(tasks), outcome \in LoginOutcomes :
        LoginTaskDone(i, outcome) /\ LoginFairBounded
  \/ \E i \in 1..Len(tasks), outcome \in LoginOutcomes :
        LoginCheckDone(i, outcome) /\ LoginFairBounded

\* As SpecAppFair, and every await of a login attempt returns or raises:
\* the sleeps, the cookie extraction and the validation requests.  The
\* attempt goes on at a suspension of run(), which run() reaches in every
\* tick, hence the strong fairness.
SpecLoginFair ==
  /\ Init /\ [][LoginFairNext]_vars
  /\ WF_vars(LoopStep /\ LoginFairBounded)
  /\ WF_vars(\E i \in 1..Len(tasks) : TaskStart(i) /\ LoginFairBounded)
  /\ SF_vars(\E i \in 1..Len(tasks), outcome \in LoginOutcomes :
               LoginTaskDone(i, outcome) /\ LoginFairBounded)
  /\ SF_vars(\E i \in 1..Len(tasks), outcome \in LoginOutcomes :
               LoginCheckDone(i, outcome) /\ LoginFairBounded)

\* ======================================================================
\* Properties
\* ======================================================================
CursorValid ==
  /\ 0 <= cursor_row /\ cursor_row < Len(lines)
  /\ 0 <= cursor_col /\ cursor_col <= Len(lines[cursor_row + 1])

\* C1: after an editing key, undo gives back exactly the text and cursor held
\* before the key, and a redo right after gives back exactly the text and
\* cursor held after the key.
C1_UndoRedoRoundTrip ==
  /\ probe.phase = "undone" => Snapshot(Ed) = probe.pre
  /\ probe.phase = "redone" => Snapshot(Ed) = probe.post

\* an edit that changed the text on a non-empty undo stack, undone and redone
C1_Witness ==
  /\ probe.phase = "redone"
  /\ probe.pre.lines # probe.post.lines
  /\ Len(undo_stack) > 1

\* C2: after set_text and any sequence of keys the cursor is a position of
\* the buffer: 0 <= row < len(lines) and 0 <= col <= len(lines[row]).
C2_CursorAlwaysValid == CursorValid

\* C3: pop_screen on a stack of depth >= 2 with B above A removes B, runs
\* B.on_exit and then A.on_enter, leaves A active and the application running.
C3_PopReturnsToPrevious ==
  \A i \in 1..Len(navLog) :
    LET n == navLog[i] IN
    (n.op = "pop" /\ Len(n.before) >= 2) =>
      /\ n.after = Front(n.before)
      /\ Top(n.after) = n.before[Len(n.before) - 1]
      /\ n.hooks = << <<"on_exit", Top(n.before)>>,
                      <<"on_enter", n.before[Len(n.before) - 1]>> >>
      /\ n.running

\* a pop from depth >= 2 has just run and its result is the current stack
C3_Witness ==
  \E i \in 1..Len(navLog) :
    /\ navLog[i].op = "pop"
    /\ Len(navLog[i].before) >= 2
    /\ stack = navLog[i].after
    /\ running

\* C4: the loop of run() is left only with the running flag false or the
\* stack empty; an exception of render, of the input poll or of a key handler
\* never leaves run().
C4_LoopEndsOnlyOnExitOrEmpty ==
  /\ pc # "crashed"
  /\ (pc = "cleanup" \/ closed > 0) => (~running \/ Len(stack) = 0)

\* the loop has ended, by an exit request, in a tick whose render raised
C4_Witness ==
  /\ pc = "cleanup"
  /\ tick.rfail
  /\ tick.dispatched
  /\ ~running

\* C5: when render raises in a tick its frame is skipped (the dirty flag stays
\* cleared and the tick goes on), and both that tick and the next one poll the
\* input and dispatch a key that arrived.
C5_RenderFailureContained ==
  /\ [](/\ pc # "crashed"
        /\ (pc = "top" /\ (tick.rfail \/ prevFail)) =>
              (tick.polled /\ (tick.gotkey => tick.dispatched)))
  /\ [][RenderRaise => (~screens'[screen].dirty /\ pc' = "sleep")]_vars

\* the tick after a failed render has polled and dispatched a key
C5_Witness ==
  /\ pc = "top"
  /\ prevFail
  /\ tick.polled
  /\ tick.gotkey
  /\ tick.dispatched

InStack(id) == \E j \in 1..Len(stack) : stack[j] = id

\* C6: the completion of a task whose screen is no longer on the stack
\* changes neither the stack nor the notification nor the dirty flag of any
\* screen on the stack.
C6_StaleCompletionIsNoOp ==
  [][\A i \in 1..Len(tasks), outcome \in Outcomes, has \in BOOLEAN :
       (/\ TaskDone(i, outcome, has)
        /\ tasks[i].kind \in {"fetch_detail", "test", "submit"}
        /\ ~InStack(tasks[i].scr))
       => /\ stack' = stack
          /\ notification' = notification
          /\ \A j \in 1..Len(stack) :
               screens'[stack[j]].dirty = screens[stack[j]].dirty]_vars

\* C7: when handle_key is invoked, the screen it is invoked on is the top of
\* the stack.
C7_KeyGoesToActiveScreen ==
  pc = "dispatch" => (Len(stack) > 0 /\ screen = Top(stack))

RowInView(height) ==
  scroll_row <= cursor_row /\ cursor_row < scroll_row + height

ColInView(width) ==
  scroll_col <= cursor_col /\ cursor_col < scroll_col + CodeWidth(Ed, width)

ScrollNonNeg == scroll_row >= 0 /\ scroll_col >= 0

\* C8 as stated: after render(x, y, width, height) with any height >= 1 and
\* width >= 1 the cursor is inside the window and no scroll is negative.
C8_CursorInViewAnyWidth ==
  [][\A w \in 1..MaxWidth, h \in 1..MaxHeight :
       Render(w, h) => (RowInView(h) /\ ColInView(w) /\ ScrollNonNeg)']_vars

\* C8: after render(x, y, width, height) with height >= 1 and a width that
\* leaves at least one code column beside the gutter, the cursor is inside
\* the window and no scroll is negative.
C8_CursorInView ==
  [][\A w \in 1..MaxWidth, h \in 1..MaxHeight :
       (Render(w, h) /\ CodeWidth(Ed, w) >= 1) =>
          (RowInView(h) /\ ColInView(w) /\ ScrollNonNeg)']_vars

\* rendered with both scrolls moved and the cursor inside a window that has
\* code columns
C8_Witness ==
  /\ ~dirty
  /\ scroll_row > 0
  /\ scroll_col > 0
  /\ RowInView(MaxHeight)
  /\ CodeWidth(Ed, MaxWidth) >= 1
  /\ ColInView(MaxWidth)

\* C9: n editing keys in a row from a state S followed by n undos in a row
\* give back the text and cursor of S.
C9_NUndosRestore ==
  (chain.base # None /\ chain.n > 0 /\ chain.m = chain.n) =>
     Snapshot(Ed) = chain.base

\* C10: after an editing key has been handled the selection anchor is unset.
C10_EditClearsSelection == probe.phase = "edited" => sel_anchor = None

\* ---------------------------------------------------------------------
\* the on_exit calls of a stack emptied from the top
ExitsTopFirst(s) == [i \in 1..Len(s) |-> <<"on_exit", s[Len(s) + 1 - i]>>]

\* C11: a re-login after an auth error, and a logout, call on_exit on
\* every screen of the stack, top first, then on_enter on a fresh login
\* screen, and leave a stack that holds exactly that one login screen;
\* this also holds for the second of two re-logins reported concurrently.
C11_ReloginLeavesOneLogin ==
  \A i \in 1..Len(navLog) :
    navLog[i].op \in {"relogin", "logout"} =>
      LET e == navLog[i] IN
      /\ Len(e.after) = 1
      /\ screens[e.after[1]].kind = "Login"
      /\ \A j \in 1..Len(e.before) : e.before[j] # e.after[1]
      /\ e.hooks = ExitsTopFirst(e.before) \o << <<"on_enter", e.after[1]>> >>
      /\ i = Len(navLog) => stack = e.after

\* the second of two concurrent re-logins ran: it found the login screen
\* the first one had pushed
C11_Witness ==
  \E i \in 1..Len(navLog) :
    /\ navLog[i].op = "relogin"
    /\ Len(navLog[i].before) = 1
    /\ screens[navLog[i].before[1]].kind = "Login"
    /\ \E j \in 1..Len(screens) : screens[j].kind = "ProblemList"

\* a logout from a stack of several screens
C11_LogoutWitness ==
  \E i \in 1..Len(navLog) :
    navLog[i].op = "logout" /\ Len(navLog[i].before) >= 1

\* ---------------------------------------------------------------------
\* run() has started and exit() has been called
Stopped == pc # "init" /\ ~running

LoopEnded == pc = "done" /\ closed = 1

\* C12: once run() has started and exit() was called (pop_screen calls it
\* when it empties the stack), running stays false, the loop starts no new
\* tick, control only moves on to the cleanup, and the loop does end with
\* client.close() invoked exactly once.
C12_ExitEndsLoopAndCloses ==
  /\ [](closed <= 1)
  /\ [](Len(stack) = 0 /\ pc # "init" /\ pc # "done" => ~running)
  /\ [][Stopped => /\ Stopped'
                    /\ ~(pc = "top" /\ pc' = "render")
                    /\ pc \in {"top", "cleanup", "done"}
                          => pc' \in {"cleanup", "done"}]_vars
  /\ (Stopped ~> LoopEnded)

\* the loop ended after a pop_screen that emptied the stack
C12_Witness == Stopped /\ LoopEnded /\ Len(stack) = 0

\* ---------------------------------------------------------------------
\* the screen that launched task i is the active one and the loop is running
OwnerActive(i) == running /\ Len(stack) > 0 /\ tasks[i].scr = Top(stack)

ActiveDirty == running /\ Len(stack) > 0 /\ screens[Top(stack)].dirty

\* the one place where the bound on the number of screens stops the model:
\* a re-login task that has no screen left to create
ReloginBlocked ==
  /\ Len(screens) >= MaxFairScreens
  /\ \E i \in 1..Len(tasks) : tasks[i].kind = "relogin" /\ tasks[i].at = "new"

RECURSIVE FragText(_)
FragText(frags) ==
  IF frags = <<>> THEN <<>> ELSE frags[1][2] \o FragText(Tail(frags))

\* the cache has one list per buffer line and each list spells its line
CacheMatches ==
  /\ Len(highlighted) = Len(lines)
  /\ \A i \in 1..Len(lines) : FragText(highlighted[i]) = lines[i]

\* C14: a step that changes the buffer lines leaves the highlight flag set;
\* whenever the flag is clear the cache spells the current buffer; and
\* render ends with the flag clear and the cache it has drawn from spelling
\* the buffer, so it never draws from a stale cache.
C14_CacheFollowsBuffer ==
  /\ [](~highlight_dirty => CacheMatches)
  /\ [][lines' # lines => highlight_dirty']_vars
  /\ [][(\E w \in 1..MaxWidth, h \in 1..MaxHeight : Render(w, h))
          => (~highlight_dirty' /\ CacheMatches')]_vars

\* a render after an edit of a buffer of two lines
C14_Witness ==
  /\ ~highlight_dirty
  /\ undo_stack # <<>>
  /\ Len(lines) >= 2
  /\ \E i \in 1..Len(highlighted) : highlighted[i] # <<>>

\* C15: after _rehighlight the cache has as many lists as the buffer has
\* lines and the fragments of list i concatenate to line i, for every token
\* stream whose texts concatenate to the buffer text.
C15_RehighlightSplitsByLine ==
  ~highlight_dirty => CacheMatches

\* a recomputation over a token that spans a line break, on a buffer of at
\* least two lines one of which has two fragments
C15_Witness ==
  /\ ~highlight_dirty
  /\ Len(lines) >= 2
  /\ \E i \in 1..Len(tokens) :
       \E j \in 2..(Len(tokens[i].text) - 1) : tokens[i].text[j] = "\n"
  /\ \E i \in 1..Len(highlighted) : Len(highlighted[i]) >= 2

\* ---------------------------------------------------------------------
\* C16: after an editing key the top of the undo stack is the (lines,
\* cursor) held before the key and the redo stack is empty; an undo moves
\* exactly the top undo entry away and puts the current state on the redo
\* stack, a redo does the reverse, and neither touches the rest of either
\* stack (with an empty source stack they change nothing).
C16_UndoRedoStacks ==
  /\ [](probe.phase = "edited" =>
          /\ undo_stack # <<>>
          /\ undo_stack[Len(undo_stack)] = probe.pre
          /\ redo_stack = <<>>)
  /\ [][(\E k \in UndoKeys : UndoKey(k)) =>
          IF undo_stack = <<>>
            THEN UNCHANGED <<undo_stack, redo_stack, lines>>
          ELSE /\ undo_stack' = SubSeq(undo_stack, 1, Len(undo_stack) - 1)
               /\ redo_stack' = Append(redo_stack, Snapshot(Ed))]_vars
  /\ [][(\E k \in RedoKeys : RedoKey(k)) =>
          IF redo_stack = <<>>
            THEN UNCHANGED <<undo_stack, redo_stack, lines>>
          ELSE /\ redo_stack' = SubSeq(redo_stack, 1, Len(redo_stack) - 1)
               /\ undo_stack' = Append(undo_stack, Snapshot(Ed))]_vars

\* undos and a redo outside an edit-undo-redo round trip have left entries
\* on both stacks
C16_Witness ==
  /\ Len(undo_stack) >= 2
  /\ Len(redo_stack) >= 1
  /\ probe.phase = "idle"
  /\ \E i \in 1..Len(redo_stack) : redo_stack[i].lines # lines

\* C17: neither stack ever holds more than max_undo entries, and an editing
\* key pressed on a full undo stack drops the oldest entries to make room
\* for the snapshot it pushes.
C17_StacksBounded ==
  /\ [](Len(undo_stack) <= MaxUndo /\ Len(redo_stack) <= MaxUndo)
  /\ [][(probe'.phase = "edited" /\ nkeys' = nkeys + 1
             /\ Len(undo_stack) = MaxUndo) =>
          /\ Len(undo_stack') = MaxUndo
          /\ undo_stack'[MaxUndo] = Snapshot(Ed)
          /\ \E k \in 1..2 :
               SubSeq(undo_stack', 1, MaxUndo - k) =
                 SubSeq(undo_stack, k + 1, MaxUndo)]_vars

\* the character a typed MaxUndo + 1 times into the empty buffer: the
\* snapshot of the empty buffer has been dropped
C17_Witness ==
  /\ probe.phase = "edited"
  /\ Len(undo_stack) = MaxUndo
  /\ Len(lines) = 1
  /\ Len(lines[1]) = MaxUndo + 1
  /\ \A i \in 1..MaxUndo :
       undo_stack[i].lines = << [j \in 1..i |-> "a"] >>

\* ---------------------------------------------------------------------
\* the index in "\n".join(ls) of position pos, a column past the end of its
\* line counting as the end of the line
Offset(ls, pos) ==
  LET r == pos[1] + 1
      before == Join(SubSeq(ls, 1, r - 1))
  IN Len(before) + (IF r > 1 THEN 1 ELSE 0)
       + (IF r <= Len(ls) THEN Min(pos[2], Len(ls[r])) ELSE 0)

\* the buffer without the text from position s up to position e
Removed(ls, s, e) ==
  LET text == Join(ls)
  IN Split(Take(text, Offset(ls, s)) \o Drop(text, Offset(ls, e)))

DeletingKeys == {Key("KEY_BACKSPACE", ""), Key("KEY_DELETE", "")}

\* position pos is a position of the buffer
ValidPos(pos) ==
  /\ pos[1] >= 0 /\ pos[1] < Len(lines)
  /\ pos[2] >= 0 /\ pos[2] <= Len(lines[pos[1] + 1])

\* C18: Backspace or Delete with an active selection, which is then exactly
\* one call of delete_selection, removes the text from the start to the end
\* of the range and nothing else, puts the cursor at the start and clears the
\* anchor; without an active selection delete_selection returns false and
\* changes nothing.
C18_DeleteSelectionRemovesRange ==
  /\ [](SelRange(Ed) = None =>
          DeleteSelection(Ed) = [ed |-> Ed, had |-> FALSE])
  /\ [][\A k \in DeletingKeys :
          (EditKey(k) /\ SelRange(Ed) # None) =>
            /\ lines' = Removed(lines, SelRange(Ed)[1], SelRange(Ed)[2])
            /\ cursor_row' = SelRange(Ed)[1][1]
            /\ cursor_col' = SelRange(Ed)[1][2]
            /\ sel_anchor' = None]_vars

\* the same for the selections whose anchor and cursor are positions of the
\* buffer
C18_ValidSelectionRemoved ==
  [][\A k \in DeletingKeys :
       (EditKey(k) /\ SelRange(Ed) # None
          /\ ValidPos(sel_anchor) /\ ValidPos(<<cursor_row, cursor_col>>)) =>
         /\ lines' = Removed(lines, SelRange(Ed)[1], SelRange(Ed)[2])
         /\ cursor_row' = SelRange(Ed)[1][1]
         /\ cursor_col' = SelRange(Ed)[1][2]
         /\ sel_anchor' = None
         /\ undo_stack' # <<>>
         /\ undo_stack'[Len(undo_stack')] = Snapshot(Ed)]_vars

\* ---------------------------------------------------------------------
\* column c is where a skip to the right from column col of line ends: past
\* a run of word characters and then a run of other characters
RightSkipEnd(line, col, c) ==
  \E w \in col..c :
    /\ \A i \in (col + 1)..w : IsWord(line[i])
    /\ w = Len(line) \/ ~IsWord(line[w + 1])
    /\ \A i \in (w + 1)..c : ~IsWord(line[i])
    /\ c = Len(line) \/ IsWord(line[c + 1])

\* column c is where a skip to the left from column col > 0 of line ends:
\* before the run of other characters and the word left of the cursor
LeftSkipEnd(line, col, c) ==
  \E w \in c..(col - 1) :
    /\ \A i \in (w + 1)..(col - 1) : ~IsWord(line[i + 1])
    /\ w = 0 \/ IsWord(line[w + 1])
    /\ \A i \in (c + 1)..w : IsWord(line[i])
    /\ c = 0 \/ ~IsWord(line[c])

AtLineEnd == cursor_col = Len(lines[cursor_row + 1])

\* C19 as stated: a word movement that starts at a line boundary crosses
\* into the adjacent line and then performs its word skip there, so that the
\* second move_word_right on ["two", "sum"] ends at the end of "sum".
C19_CrossThenSkip ==
  [][(MoveKey(Key("kRIT5", "")) /\ AtLineEnd /\ cursor_row + 1 < Len(lines))
       => /\ cursor_row' = cursor_row + 1
          /\ RightSkipEnd(lines[cursor_row + 2], 0, cursor_col')]_vars

\* C19, amended: a word movement that starts at a line boundary only
\* crosses: to column 0 of the next line, or to the end of the previous
\* line; a movement that starts elsewhere stays on its line and skips a
\* word run and a run of other characters; at the two ends of the buffer
\* nothing moves.
C19_CrossOnly ==
  /\ [][MoveKey(Key("kRIT5", "")) =>
          IF ~AtLineEnd
            THEN /\ cursor_row' = cursor_row
                 /\ cursor_col' > cursor_col
                 /\ RightSkipEnd(lines[cursor_row + 1], cursor_col, cursor_col')
          ELSE IF cursor_row + 1 < Len(lines)
            THEN cursor_row' = cursor_row + 1 /\ cursor_col' = 0
          ELSE UNCHANGED <<cursor_row, cursor_col>>]_vars
  /\ [][MoveKey(Key("kLFT5", "")) =>
          IF cursor_col > 0
            THEN /\ cursor_row' = cursor_row
                 /\ cursor_col' < cursor_col
                 /\ LeftSkipEnd(lines[cursor_row + 1], cursor_col, cursor_col')
          ELSE IF cursor_row > 0
            THEN /\ cursor_row' = cursor_row - 1
                 /\ cursor_col' = Len(lines[cursor_row])
          ELSE UNCHANGED <<cursor_row, cursor_col>>]_vars

\* two move_word_right from (0,0) on two lines of one word each: the
\* second has crossed to the start of the second line
C19_Witness ==
  /\ lines = << <<"a", "a">>, <<"a", "a">> >>
  /\ nkeys = 2
  /\ cursor_row = 1
  /\ cursor_col = 0

\* ---------------------------------------------------------------------
\* position a is not after position b
NotAfter(a, b) == a[1] < b[1] \/ (a[1] = b[1] /\ a[2] <= b[2])

\* C20: with an anchor that differs from the cursor the selection range is
\* the pair of anchor and cursor with the lexicographically smaller one
\* first; with no anchor, or an anchor equal to the cursor, there is no
\* range.
C20_RangeIsOrdered ==
  LET c == <<cursor_row, cursor_col>>
      r == SelRange(Ed)
  IN IF sel_anchor = None \/ sel_anchor = c THEN r = None
     ELSE /\ r # None
          /\ {r[1], r[2]} = {sel_anchor, c}
          /\ NotAfter(r[1], r[2])
          /\ \A p \in {sel_anchor, c} : NotAfter(r[1], p) /\ NotAfter(p, r[2])

\* a selection made backwards over a line break: the anchor is on a later
\* row than the cursor and the range starts at the cursor
C20_Witness ==
  /\ sel_anchor # None
  /\ sel_anchor[1] > cursor_row
  /\ SelRange(Ed) = << <<cursor_row, cursor_col>>, sel_anchor >>

\* ---------------------------------------------------------------------
\* C21: the buffer always holds at least one line, after set_text (of the
\* empty text too) and after any sequence of keys.
C21_NeverEmpty == Len(lines) >= 1

\* a selection that covered a buffer of two lines has just been deleted and
\* one empty line is left
C21_Witness ==
  /\ probe.phase = "edited"
  /\ Len(probe.pre.lines) = 2
  /\ probe.pre.lines[1] # <<>>
  /\ probe.pre.lines[2] # <<>>
  /\ lines = << <<>> >>
  /\ sel_anchor = None

\* set_text("") after keys had filled the buffer
C21_EmptyTextWitness ==
  /\ nkeys = MaxBufKeys
  /\ undo_stack = <<>>
  /\ lines = << <<>> >>
  /\ probe = Idle

\* ---------------------------------------------------------------------
\* the calls that leave a screen on top: push, replace, and a pop that does
\* not empty the stack
LeavesTop(e) ==
  e.op \in {"push", "replace"} \/ (e.op = "pop" /\ Len(e.after) > 0)

\* the postcondition of such a call: the screen on top is the one whose
\* on_enter ran last, it is dirty, and for push and replace it is a screen
\* that was not on the stack before
EnteredTop(e) ==
  /\ Len(e.after) > 0
  /\ e.hooks # <<>>
  /\ e.hooks[Len(e.hooks)] = <<"on_enter", Top(e.after)>>
  /\ e.dirty
  /\ e.op \in {"push", "replace"} =>
        \A j \in 1..Len(e.before) : e.before[j] # Top(e.after)
  /\ e.op = "push" => Front(e.after) = e.before
  /\ e.op = "pop" => e.after = Front(e.before)

StartsTick == \E resized \in BOOLEAN : LoopEnter(resized)

\* C22 as stated: push_screen(s) and replace_screen(s) return with s on top,
\* entered and dirty, a pop that leaves a screen returns with that screen
\* entered and dirty, and the tick that starts next renders that screen.
C22_NextTickRendersIt ==
  /\ [](\A i \in 1..Len(navLog) : LeavesTop(navLog[i]) => EnteredTop(navLog[i]))
  /\ [][StartsTick =>
          \A i \in 1..Len(navLog) :
            LeavesTop(navLog[i]) =>
              /\ screen' = Top(navLog[i].after)
              /\ pc' = "render"
              /\ screens'[screen'].dirty]_vars

\* C22, amended: the same postconditions, and the tick that starts next
\* renders that screen if it is still the active one when the tick starts.
C22_NextTickRendersTop ==
  /\ [](\A i \in 1..Len(navLog) : LeavesTop(navLog[i]) => EnteredTop(navLog[i]))
  /\ [][StartsTick =>
          \A i \in 1..Len(navLog) :
            (LeavesTop(navLog[i]) /\ Top(stack) = Top(navLog[i].after)) =>
              /\ screen' = Top(navLog[i].after)
              /\ pc' = "render"
              /\ screens'[screen'].dirty]_vars

\* a pop has returned to a screen that had been rendered before, and the
\* next tick is about to start on it
C22_Witness ==
  /\ pc = "top"
  /\ running
  /\ navLog # <<>>
  /\ navLog[Len(navLog)].op = "pop"
  /\ Len(stack) > 0
  /\ stack = navLog[Len(navLog)].after
  /\ screens[Top(stack)].dirty
  /\ screens[Top(stack)].data

\* ---------------------------------------------------------------------
\* what a replace_screen call recorded as e has done: the top was removed
\* and left, the new screen was pushed and entered, nothing else was
\* entered, and the application was not stopped
Replaced(e) ==
  LET new == Top(e.after) IN
  /\ Len(e.after) > 0
  /\ \A j \in 1..Len(e.before) : e.before[j] # new
  /\ e.running
  /\ IF Len(e.before) > 0
       THEN /\ e.after = Append(Front(e.before), new)
            /\ Len(e.after) = Len(e.before)
            /\ e.hooks = << <<"on_exit", Top(e.before)>>, <<"on_enter", new>> >>
       ELSE /\ e.after = <<new>>
            /\ e.hooks = << <<"on_enter", new>> >>

\* C23: replace_screen(s) on a non-empty stack removes the top, runs its
\* on_exit, then pushes s and runs s.on_enter: the depth is unchanged, the
\* screen beneath gets no on_enter and the application is not stopped; on
\* an empty stack it does what push_screen does; and the step in which a
\* login result replaces the screen leaves run() where it was.
C23_ReplaceKeepsDepth ==
  /\ [](\A i \in 1..Len(navLog) :
          navLog[i].op = "replace" => Replaced(navLog[i]))
  /\ [](\A i \in 1..Len(navLog) :
          (navLog[i].op = "replace" /\ i = Len(navLog)) =>
             (stack = navLog[i].after /\ screens[Top(stack)].dirty))
  /\ [][\A i \in 1..Len(tasks), outcome \in {"valid", "error"} :
          LoginCheckDone(i, outcome) =>
            /\ running' = running
            /\ pc' = pc
            /\ Len(stack') = Max(1, Len(stack))
            /\ \A j \in 1..(Len(stack) - 1) :
                 /\ stack'[j] = stack[j]
                 /\ screens'[stack[j]] = screens[stack[j]]]_vars

\* a login result has replaced the upper of two login screens by the
\* problem list
C23_Witness ==
  /\ navLog # <<>>
  /\ navLog[Len(navLog)].op = "replace"
  /\ Len(navLog[Len(navLog)].before) = 2
  /\ stack = navLog[Len(navLog)].after
  /\ screens[stack[1]].kind = "Login"
  /\ screens[stack[2]].kind = "ProblemList"
  /\ running

\* a replace on the empty stack: the start with a saved session
C23_EmptyWitness ==
  /\ navLog # <<>>
  /\ navLog[1].op = "replace"
  /\ navLog[1].before = <<>>
  /\ stack = navLog[1].after

\* ---------------------------------------------------------------------
\* C24: when a fetch, test or submit task fails with an error that is not
\* an authentication error, the error is put into the notification, the
\* screen of the task is dirty afterwards, the stack and the running flag
\* are unchanged, no task is created and run() stays where it was.
C24_ErrorIsNotified ==
  [][\A i \in 1..Len(tasks), has \in BOOLEAN :
       TaskDone(i, "error", has) =>
         /\ notification' = "error"
         /\ screens'[tasks[i].scr].dirty
         /\ ~screens'[tasks[i].scr].loading
         /\ stack' = stack
         /\ running' = running /\ running
         /\ pc' = pc /\ pc' # "crashed"
         /\ tasks' = RemoveAt(tasks, i - 1)]_vars

\* a task of the active screen has failed after that screen was rendered
\* with another notification: the error is shown and the screen is dirty
C24_Witness ==
  /\ notification = "error"
  /\ running
  /\ pc \in {"sleep", "poll", "backoff"}
  /\ Len(stack) >= 2
  /\ screens[Top(stack)].kind = "ProblemDetail"
  /\ screens[Top(stack)].dirty
  /\ screens[Top(stack)].code
  /\ tasks = <<>>

\* ---------------------------------------------------------------------
\* the moves of run() from one point of the loop body to the next
TickOrder ==
  { <<"init", "top">>, <<"init", "done">>, <<"top", "render">>,
    <<"top", "cleanup">>, <<"render", "sleep">>, <<"sleep", "poll">>,
    <<"poll", "dispatch">>, <<"poll", "top">>, <<"poll", "backoff">>,
    <<"backoff", "top">>, <<"dispatch", "top">>, <<"cleanup", "done">> }

\* the screens other than id are as they were
OthersSame(id) ==
  /\ Len(screens') = Len(screens)
  /\ \A j \in 1..Len(screens) : j # id => screens'[j] = screens[j]

C26_AnchorValid == sel_anchor # None => ValidPos(sel_anchor)

\* a call of _fetch_problems of list screen id has not returned yet
FetchInFlight(id) ==
  \E i \in 1..Len(tasks) : tasks[i].kind = "fetch_problems" /\ tasks[i].scr = id

\* C27: once no fetch of a problem list is in flight any more, the list it
\* displays is the reply to its most recent request, i.e. to the
\* difficulty the screen has now.
C27_LatestRequestShown ==
  \A id \in 1..Len(screens) :
    (screens[id].kind = "ProblemList" /\ ~FetchInFlight(id)) =>
       screens[id].shown = screens[id].query

\* screen object id is a login screen that ignores the keys
BusyAt(id) == Len(screens) >= id /\ screens[id].busy

\* C28: a login screen that is busy with an attempt is eventually not busy
\* any more, unless run() ends first.
C28_BusyClears ==
  \A id \in 1..MaxLoginFairScreens :
    BusyAt(id) ~> (~BusyAt(id) \/ pc \in {"done", "crashed"})

InsertingKeys == EditKeys \ DeletingKeys

\* the editor after the text of its active selection was removed and the
\* selection collapsed to its start
Collapsed(e) ==
  LET sel == SelRange(e) IN
  [e EXCEPT !.lines = Removed(e.lines, sel[1], sel[2]),
            !.row = sel[1][1], !.col = sel[1][2], !.anchor = None]

\* what Enter, Tab or a character inserts into e at its cursor
Insertion(e, k) ==
  IF k.name = "KEY_ENTER" THEN Enter(e)
  ELSE IF k.name = "KEY_TAB" THEN InsertText(e, Spaces(TabWidth))
  ELSE InsertChar(e, k.ch)

\* the text, the cursor and the anchor after the step are those of e
SameTextAs(e) ==
  /\ lines' = e.lines
  /\ cursor_row' = e.row
  /\ cursor_col' = e.col
  /\ sel_anchor' = e.anchor

\* C29: with an active selection, Backspace and Delete remove the selected
\* text and nothing else, and Enter, Tab and a character remove it and then
\* insert at the start of the selection.
C29_KeysReplaceSelection ==
  /\ [][\A k \in DeletingKeys :
          (EditKey(k) /\ SelRange(Ed) # None) => SameTextAs(Collapsed(Ed))]_vars
  /\ [][\A k \in InsertingKeys :
          (EditKey(k) /\ SelRange(Ed) # None) =>
             SameTextAs(Insertion(Collapsed(Ed), k))]_vars

\* the same for the selections whose anchor and cursor are positions of the
\* buffer
C29_ValidSelectionReplaced ==
  /\ [][\A k \in DeletingKeys :
          (EditKey(k) /\ SelRange(Ed) # None /\ ValidPos(sel_anchor)
             /\ ValidPos(<<cursor_row, cursor_col>>)) =>
            SameTextAs(Collapsed(Ed))]_vars
  /\ [][\A k \in InsertingKeys :
          (EditKey(k) /\ SelRange(Ed) # None /\ ValidPos(sel_anchor)
             /\ ValidPos(<<cursor_row, cursor_col>>)) =>
            SameTextAs(Insertion(Collapsed(Ed), k))]_vars

\* key k is handled now, with no active selection, as a Backspace at (0,0)
\* or as a Delete at the end of the last line
IdleDeletion(k) ==
  /\ EditKey(k)
  /\ SelRange(Ed) = None
  /\ \/ k.name = "KEY_BACKSPACE" /\ cursor_row = 0 /\ cursor_col = 0
     \/ /\ k.name = "KEY_DELETE"
        /\ cursor_row = Len(lines) - 1
        /\ cursor_col = Len(lines[Len(lines)])

\* C30 as stated: a Backspace at (0,0) or a Delete at the end of the last
\* line, with no active selection, leaves the undo stack and the redo stack
\* unchanged.
C30_IdleKeyKeepsHistory ==
  [][\A k \in DeletingKeys :
       IdleDeletion(k) => UNCHANGED <<undo_stack, redo_stack>>]_vars

\* C30: a Backspace at (0,0) or a Delete at the end of the last line, with
\* no active selection, leaves the text and the cursor unchanged, but it
\* pushes the current state on the undo stack (dropping the oldest entry of
\* a full stack) and empties the redo stack.
C30_IdleKeyIsAnUndoStep ==
  [][\A k \in DeletingKeys :
       IdleDeletion(k) =>
         /\ UNCHANGED <<lines, cursor_row, cursor_col, sel_anchor>>
         /\ undo_stack' =
              (IF Len(undo_stack) >= MaxUndo THEN Tail(undo_stack)
               ELSE undo_stack) \o <<Snapshot(Ed)>>
         /\ redo_stack' = <<>>]_vars

\* a deleting key that changed nothing was handled on top of earlier undo
\* steps
C30_Witness ==
  /\ probe.phase = "edited"
  /\ probe.pre = probe.post
  /\ sel_anchor = None
  /\ Len(undo_stack) >= 2
  /\ undo_stack[Len(undo_stack)] = Snapshot(Ed)
  /\ undo_stack[Len(undo_stack) - 1] # Snapshot(Ed)
  /\ redo_stack = <<>>

\* ---------------------------------------------------------------------
\* the number of characters of "\n".join(ls) before column col of row row
FlatOffset(ls, row, col) ==
  Len(Join(SubSeq(ls, 1, row))) + (IF row > 0 THEN 1 ELSE 0) + col

\* the text and the cursor offset after the step are t and q
FlatAfter(t, q) ==
  /\ Join(lines') = t
  /\ FlatOffset(lines', cursor_row', cursor_col') = q

\* what the three keys do to the flat text t at offset p
FlatEdit(k, t, p) ==
  /\ (k.name = "" /\ k.ch \in TypedChars) =>
        FlatAfter(Take(t, p) \o <<k.ch>> \o Drop(t, p), p + 1)
  /\ (k.name = "KEY_BACKSPACE" /\ p > 0) =>
        FlatAfter(Take(t, p - 1) \o Drop(t, p), p - 1)
  /\ (k.name = "KEY_DELETE" /\ p < Len(t)) =>
        FlatAfter(Take(t, p) \o Drop(t, p + 1), p)

\* C31: with no active selection the editor behaves as a flat text with a
\* cursor offset p: a character is inserted at p and the offset becomes
\* p + 1, Backspace at p > 0 removes the character before p and the offset
\* becomes p - 1, Delete at p < len(text) removes the character at p and the
\* offset stays p, a line break counting as one character.
C31_RefinesFlatText ==
  [][\A k \in EditKeys :
       (EditKey(k) /\ SelRange(Ed) = None) =>
          FlatEdit(k, Join(lines), FlatOffset(lines, cursor_row, cursor_col))]_vars

\* the same from the states whose cursor is a position of the buffer
C31_ValidCursorRefines ==
  [][\A k \in EditKeys :
       (EditKey(k) /\ SelRange(Ed) = None /\ CursorValid) =>
          FlatEdit(k, Join(lines), FlatOffset(lines, cursor_row, cursor_col))]_vars

\* ---------------------------------------------------------------------
\* C32: whenever run() has returned, client.close() has been invoked.
C32_ClosedBeforeReturn == pc = "done" => closed >= 1

\* the same for the returns that come after the loop, which a startup that
\* showed a first screen has entered
C32_LoopReturnCloses == (pc = "done" /\ screens # <<>>) => closed = 1

\* ---------------------------------------------------------------------
\* the places of the stack that hold a login screen
LoginsOnStack == {i \in 1..Len(stack) : screens[stack[i]].kind = "Login"}

\* C33: at most one login screen is on the stack.
C33_OneLoginScreen == Cardinality(LoginsOnStack) <= 1

\* ---------------------------------------------------------------------
Cursor == <<cursor_row, cursor_col>>

\* a selection is active: the anchor is set and differs from the cursor
SelActive == sel_anchor # None /\ sel_anchor # Cursor

\* the lower and the upper end of the active selection
SelLow == IF Less(sel_anchor, Cursor) THEN sel_anchor ELSE Cursor
SelHigh == IF Less(sel_anchor, Cursor) THEN Cursor ELSE sel_anchor

\* C34: a Shift+movement key pressed with no anchor set makes the cursor
\* position held before the move the anchor, and one pressed with the
\* anchor set leaves the anchor as it is; plain Left (Right) pressed with an
\* active selection puts the cursor on the selection start (end), with no
\* further step, and unsets the anchor.
C34_ShiftAnchorsPlainCollapses ==
  /\ [][\A k \in SelectKeys :
          SelectKey(k) =>
             sel_anchor' = (IF sel_anchor = None THEN Cursor ELSE sel_anchor)]_vars
  /\ [][(MoveKey(Key("KEY_LEFT", "")) /\ SelActive) =>
          (Cursor' = SelLow /\ sel_anchor' = None)]_vars
  /\ [][(MoveKey(Key("KEY_RIGHT", "")) /\ SelActive) =>
          (Cursor' = SelHigh /\ sel_anchor' = None)]_vars

\* two Shift+movement keys from (0,0) have selected the two characters of
\* the first line: the first set the anchor, the second kept it
C34_Witness ==
  /\ nkeys = 2
  /\ sel_anchor = <<0, 0>>
  /\ Cursor = <<0, 2>>
  /\ undo_stack = <<>>

\* ------------------------------------------------------------------ C35
PlainArrowKeys == {Key(n, "") : n \in {"KEY_UP", "KEY_DOWN", "KEY_LEFT", "KEY_RIGHT"}}

TypingKeys == {Key("", c) : c \in TypedChars}

CtrlUpKeys == {Key(n, "") : n \in {"kUP5", "kUP3"}}

CtrlDownKeys == {Key(n, "") : n \in {"kDN5", "kDN3"}}

BufferAndCursor == <<lines, cursor_row, cursor_col>>

\* the buffer and cursor that CodeEditor.handle_key(k) leaves
EditorAfter(k) ==
  <<HandleKey(Ed, k).lines, HandleKey(Ed, k).row, HandleKey(Ed, k).col>>

InSplit == detail.view_mode = "split" /\ detail.editor

\* in split view a plain arrow key or a typed character does to the editor
\* what the editor's handle_key does and leaves the description scroll
SplitRoutesToEditor ==
  [][\A k \in PlainArrowKeys \cup TypingKeys :
       (InSplit /\ DetailHandleKey(k)) =>
          /\ BufferAndCursor' = EditorAfter(k)
          /\ detail'.desc_scroll = detail.desc_scroll]_vars

\* in split view Ctrl+Up / Ctrl+Down move the description by one line, as
\* far as the description goes, and leave the editor's buffer and cursor
SplitCtrlScrolls ==
  /\ [][\A k \in CtrlUpKeys :
          (InSplit /\ DetailHandleKey(k)) =>
             /\ detail'.desc_scroll = Max(0, detail.desc_scroll - 1)
             /\ UNCHANGED BufferAndCursor]_vars
  /\ [][\A k \in CtrlDownKeys :
          (InSplit /\ DetailHandleKey(k)) =>
             /\ detail'.desc_scroll =
                  Max(detail.desc_scroll,
                      Min(detail.desc_scroll + 1, MaxScroll(detail, "split")))
             /\ UNCHANGED BufferAndCursor]_vars

\* C35: in split view plain arrow keys and typing go to the editor and leave
\* the description scroll, Ctrl+Up / Ctrl+Down scroll the description by one
\* line and leave the editor's buffer and cursor, and in description view no
\* key changes the editor's buffer or cursor.
C35_SplitRoutesDescKeepsEditor ==
  /\ SplitRoutesToEditor
  /\ SplitCtrlScrolls
  /\ [][\A k \in DetailKeys :
          (detail.view_mode = "desc" /\ DetailHandleKey(k)) =>
             UNCHANGED BufferAndCursor]_vars

\* C35 with the language switch set aside: in description view no key other
\* than Ctrl+L changes the editor's buffer or cursor.
C35_DescKeepsEditorButCtrlL ==
  /\ SplitRoutesToEditor
  /\ SplitCtrlScrolls
  /\ [][\A k \in DetailKeys \ {CtrlKey("^L")} :
          (detail.view_mode = "desc" /\ DetailHandleKey(k)) =>
             UNCHANGED BufferAndCursor]_vars

\* ------------------------------------------------------------------ C36
\* C36: set_text(t) leaves the buffer equal to t cut at its line breaks (the
\* lines contain no line break and joined by line breaks give t back, the
\* empty text giving one empty line), the cursor at (0,0), both scroll
\* offsets 0, no selection and empty undo and redo stacks; an undo or a redo
\* pressed right after it leaves the buffer as set_text made it.
C36_SetTextResets ==
  [][\A t \in BufTexts :
       SetText(t) =>
         /\ Join(lines') = t
         /\ \A i \in 1..Len(lines') :
              \A j \in 1..Len(lines'[i]) : lines'[i][j] # "\n"
         /\ t = <<>> => lines' = << <<>> >>
         /\ cursor_row' = 0 /\ cursor_col' = 0
         /\ scroll_row' = 0 /\ scroll_col' = 0
         /\ sel_anchor' = None
         /\ undo_stack' = <<>> /\ redo_stack' = <<>>
         /\ \A k \in UndoKeys \cup RedoKeys :
              HandleKey(Ed', k).lines = lines']_vars

\* set_text has replaced an edited buffer by the two-line text "a\n"
C36_Witness ==
  /\ nkeys = MaxBufKeys
  /\ lines = << <<"a">>, <<>> >>
  /\ cursor_row = 0 /\ cursor_col = 0
  /\ undo_stack = <<>> /\ redo_stack = <<>>
  /\ sel_anchor = None
  /\ probe = Idle /\ chain = NoChain

\* ------------------------------------------------------------------ C37
\* len(self._lines[r]), -1 when the buffer has no row r
LineLen(r) == IF r >= 0 /\ r < Len(lines) THEN Len(lines[r + 1]) ELSE -1

LastRow == Len(lines) - 1

\* the keys that call _move_left / _move_right on the cursor as it stands
CallsMoveLeft ==
  \/ MoveKey(Key("KEY_LEFT", "")) /\ sel_anchor = None
  \/ SelectKey(Key("kLFT2", ""))

CallsMoveRight ==
  \/ MoveKey(Key("KEY_RIGHT", "")) /\ sel_anchor = None
  \/ SelectKey(Key("kRIT2", ""))

LeftOfCursor ==
  IF cursor_col = 0 /\ cursor_row > 0
    THEN <<cursor_row - 1, LineLen(cursor_row - 1)>>
  ELSE IF Cursor = <<0, 0>> THEN Cursor
  ELSE <<cursor_row, cursor_col - 1>>

RightOfCursor ==
  IF cursor_col = LineLen(cursor_row) /\ cursor_row < LastRow
    THEN <<cursor_row + 1, 0>>
  ELSE IF cursor_col = LineLen(cursor_row) /\ cursor_row = LastRow THEN Cursor
  ELSE <<cursor_row, cursor_col + 1>>

\* C37: for a cursor inside the buffer, move_left at column 0 of a row r > 0
\* goes to the end of row r-1 and move_right at the end of a row r < last
\* goes to column 0 of row r+1; otherwise they step one column; move_left at
\* (0,0) and move_right at the end of the last line leave the cursor
\* unchanged.
C37_LeftRightWrap ==
  /\ [][(CursorValid /\ CallsMoveLeft) => Cursor' = LeftOfCursor]_vars
  /\ [][(CursorValid /\ CallsMoveRight) => Cursor' = RightOfCursor]_vars

\* Shift+Left at (1,0) has wrapped to the end of row 0
C37_Witness ==
  /\ nkeys = 2
  /\ lines = << <<" ", "a">>, <<"a">> >>
  /\ sel_anchor = <<1, 0>>
  /\ Cursor = <<0, 2>>

\* ------------------------------------------------------------------ C38
\* the keys that call _move_up, _move_down, _page_up and _page_down
CallsMoveUp == MoveKey(Key("KEY_UP", "")) \/ SelectKey(Key("kUP2", ""))

CallsMoveDown == MoveKey(Key("KEY_DOWN", "")) \/ SelectKey(Key("kDN2", ""))

\* the cursor on row r with the column it keeps there
OnRow(r) == <<r, Min(cursor_col, LineLen(r))>>

\* C38: for a cursor inside the buffer, move_up and move_down change the row
\* by one, page up and page down by 20 or as far as the buffer goes, and the
\* column becomes the smaller of
\* the previous column and the length of the destination line; move_up on
\* the first row and move_down on the last row leave the cursor unchanged.
C38_VerticalMoves ==
  /\ [][(CursorValid /\ CallsMoveUp) =>
          Cursor' = (IF cursor_row = 0 THEN Cursor ELSE OnRow(cursor_row - 1))]_vars
  /\ [][(CursorValid /\ CallsMoveDown) =>
          Cursor' = (IF cursor_row = LastRow THEN Cursor
                     ELSE OnRow(cursor_row + 1))]_vars
  /\ [][(CursorValid /\ MoveKey(Key("KEY_PGUP", ""))) =>
          Cursor' = OnRow(Max(0, cursor_row - 20))]_vars
  /\ [][(CursorValid /\ MoveKey(Key("KEY_PGDOWN", ""))) =>
          Cursor' = OnRow(Min(LastRow, cursor_row + 20))]_vars

\* End on the first line and two page downs in the tallest buffer: two full
\* pages down, the column cut to the empty line
C38_Witness ==
  /\ nkeys = 3
  /\ LastRow = MaxPageRow
  /\ Cursor = <<40, 0>>

\* ------------------------------------------------------------------ C39
\* the length of the longest prefix of line made of spaces and tabs only
LeadingBlanks(line) ==
  CHOOSE n \in 0..Len(line) :
    /\ \A i \in 1..n : line[i] \in {" ", "\t"}
    /\ n = Len(line) \/ line[n + 1] \notin {" ", "\t"}

\* C39: Enter at (r, c), a cursor inside the buffer with no selection, leaves
\* lines[r] = old[:c] and inserts the new line r+1 = indent + old[c:], where
\* indent is the leading run of spaces and tabs of the whole original line r;
\* the cursor moves to (r+1, len(indent)), the line count grows by one and
\* every other line is unchanged.
C39_EnterSplitsAndIndents ==
  [][(CursorValid /\ sel_anchor = None /\ EditKey(Key("KEY_ENTER", ""))) =>
       LET old == lines[cursor_row + 1]
           n == LeadingBlanks(old)
       IN /\ Len(lines') = Len(lines) + 1
          /\ lines'[cursor_row + 1] = SubSeq(old, 1, cursor_col)
          /\ lines'[cursor_row + 2] =
               SubSeq(old, 1, n) \o SubSeq(old, cursor_col + 1, Len(old))
          /\ \A i \in 1..Len(lines) :
               /\ i < cursor_row + 1 => lines'[i] = lines[i]
               /\ i > cursor_row + 1 => lines'[i + 1] = lines[i]
          /\ Cursor' = <<cursor_row + 1, n>>]_vars

\* Enter inside the indentation of the first line: the new line repeats the
\* whole indentation before the rest, and the second line has moved down
C39_Witness ==
  /\ nkeys = 2
  /\ lines = << <<"\t">>, <<"\t", " ", " ", "a">>, <<"a">> >>
  /\ Cursor = <<1, 2>>

\* ------------------------------------------------------------------ C40
\* a <= b in lexicographic order
LexLeq(a, b) == a[1] < b[1] \/ (a[1] = b[1] /\ a[2] <= b[2])

\* the positions asked about: every cell of the largest buffer and one row
\* and one column beyond it on each side
ProbePositions == (-1..MaxLines) \X (-1..(MaxLineLen + 1))

\* the answer for pos by rows, start and end being the ends of the range
SelectedByRows(pos, start, end) ==
  /\ pos[1] >= start[1] /\ pos[1] <= end[1]
  /\ pos[1] = start[1] => pos[2] >= start[2]
  /\ pos[1] = end[1] => pos[2] < end[2]

\* C40: a position is reported as selected exactly when start <= position <
\* end in lexicographic order, start and end being the anchor and the cursor
\* in that order; equivalently rows outside [start.row, end.row] are out, on
\* the start row the columns below start.col are out, on the end row the
\* columns at or above end.col are out and the rows between are in entirely;
\* with no active selection (no anchor, or the anchor on the cursor) nothing
\* is selected.
C40_SelectedIsHalfOpenRange ==
  \A pos \in ProbePositions :
    IF sel_anchor = None \/ sel_anchor = Cursor
    THEN ~InSelection(Ed, pos[1], pos[2])
    ELSE /\ InSelection(Ed, pos[1], pos[2]) <=>
              (LexLeq(SelLow, pos) /\ LexLeq(pos, SelHigh) /\ pos # SelHigh)
         /\ InSelection(Ed, pos[1], pos[2]) <=>
              SelectedByRows(pos, SelLow, SelHigh)

\* a selection from the first to the third row, the cursor before the anchor
C40_Witness ==
  /\ sel_anchor = <<2, 1>>
  /\ Cursor = <<0, 1>>
  /\ Len(lines) = 3
  /\ InSelection(Ed, 1, 0)
  /\ ~InSelection(Ed, 2, 1)

====
